---- MODULE Spec2Model ----
(***************************************************************************)
(* Batch enrichment pipeline of the IP intelligence platform:             *)
(* enrichIPAddresses (server/ip-enrichment.ts) run on one job against the *)
(* storage interface (server/db.ts).  One action per await point of the   *)
(* pipeline; every storage write and every output-file write may fail.    *)
(* The routes of the service that read the job and its results            *)
(* (server/routes.ts) are the actions of a second specification.          *)
(***************************************************************************)
EXTENDS Integers, Sequences, FiniteSets, TLC

\* ------------------------------------------------------------------------
\* Bounds of the model and program constants
\* ------------------------------------------------------------------------

\* The input file has at most MaxBatches full batches plus a remainder.
MaxBatches == 3

\* const BATCH_SIZE = 100 in enrichIPAddresses.
BATCH_SIZE == 100

\* Sizes of the last, partial batch that are explored.
Remainders == {0, 1, BATCH_SIZE \div 2}

\* Row counts of the input files explored.
RowCounts == {b * BATCH_SIZE + r : b \in 0..MaxBatches, r \in Remainders}

\* What a row of the input leads to: a valid address of a business ("ok"),
\* a valid address of a common consumer ISP ("isp"), an address that is not
\* valid ("invalid"), a valid address whose geolocation lookup fails
\* ("lookupfail"), a valid address of a business whose reverse-DNS lookup
\* fails or is empty ("nodns"), an empty address column ("missing").
RowKinds == {"ok", "isp", "invalid", "lookupfail", "nodns", "missing"}

\* The inputs explored: row i of the file is of kind pattern[(i % Len) + 1].
Patterns ==
  { <<"ok">>,
    <<"invalid">>,
    <<"ok", "isp", "invalid", "lookupfail", "nodns", "missing">> }

\* The jobs whose four feature flags are all explored have at most
\* MaxSmallRows rows.
MaxSmallRows == 6

\* includeGeolocation, includeDomain, includeCompany, includeNetwork of the
\* job (shared/schema.ts); the four columns default to 1.
FlagNames ==
  {"includeGeolocation", "includeDomain", "includeCompany", "includeNetwork"}

AllFlags == [FlagNames -> BOOLEAN]

DefaultFlags == [f \in FlagNames |-> TRUE]

\* The jobs the service is explored with: short files under every
\* combination of the flags, and a file of one full batch and one more row
\* under the default flags.
ServiceJobs ==
  { << n, f >> : n \in 0..MaxSmallRows, f \in AllFlags }
    \cup { << BATCH_SIZE + 1, DefaultFlags >> }

VARIABLES
  numRows,        \* number of data rows of the input CSV
  pattern,        \* kinds of the rows of the input CSV (cyclic)
  flags,          \* the job's include* flags
  pc,             \* position of the pipeline
  job,            \* the persisted job record (storage.enrichmentJobs)
  stored,         \* the persisted result records, as saved batches
  headersSeen,    \* local `headers` has been set by the "headers" event
  results,        \* local `results`: number of rows buffered
  processed,      \* local counters of enrichIPAddresses
  successful,
  failed,
  filtered,
  currentBatch,             \* local batch buffer: [first, len]
  currentBatchEnrichment,   \* local outcome buffer: number of outcomes
  batchStartIndex,
  outputHeader,   \* the enriched output file has its header row
  outputRows,     \* number of data rows appended to the enriched output
  thrownBy,       \* what threw into the end handler's catch block
  flushes,        \* history: sizes of the batches handed to saveBatchToDatabase
  writeFailed,    \* history: a store write has failed
  failCheckpoint, \* history: job.lastCheckpoint when a store write first failed
  okAfterFail,    \* history: a store write succeeded after one had failed
  geoCalls,       \* history: number of calls of getIPInfo
  dnsCalls,       \* history: number of calls of getDomainFromIP
  enrichmentData, \* the outcome of the last row (local `enrichmentData`)
  response,       \* the HTTP response being delivered, if any
  filteredFile,   \* the filtered output file written by the download route
  isCanceling,    \* the client's "Cancel Processing" button was pressed
  headersUpdatePending, \* the update of the "headers" event is in flight
  call,           \* a call of isValidIP or isCommonISP: function and arguments
  returned,       \* what the call returned
  memJobs,        \* MemStorage.enrichmentJobs of a store shared by two jobs
  memResults,     \* MemStorage.enrichmentResults of that store
  resultIdCounter, \* MemStorage.resultIdCounter of that store
  scriptPos,      \* for each of the two jobs, the storage calls its pipeline
                  \* makes and the number of them it has made
  dbJobs,         \* DBStorage: the rows of table ip_enrichment_jobs, by id
  dbResults,      \* DBStorage: the rows of table ip_enrichment_results
  dbSerial,       \* DBStorage: the next value of ip_enrichment_results.id
  currentJobStatus, \* ProcessingSection: currentJob.status
  nextResultIndex,  \* ProcessingSection: state nextResultIndex
  recentResults,    \* ProcessingSection: state recentResults, as row indexes
  polls,          \* the recent-results requests of the client in flight
  drained         \* history: a poll answered after the pipeline had stopped
                  \* has come back empty

vars ==
  << numRows, pattern, flags, pc, job, stored, headersSeen, results, processed,
     successful, failed, filtered, currentBatch, currentBatchEnrichment,
     batchStartIndex, outputHeader, outputRows, thrownBy, flushes,
     writeFailed, failCheckpoint, okAfterFail, geoCalls, dnsCalls,
     enrichmentData, response, filteredFile, isCanceling,
     headersUpdatePending, call, returned, memJobs, memResults,
     resultIdCounter, scriptPos, dbJobs, dbResults, dbSerial,
     currentJobStatus, nextResultIndex, recentResults, polls, drained >>

locals ==
  << headersSeen, results, processed, successful, failed, filtered,
     currentBatch, currentBatchEnrichment, batchStartIndex >>

counters == << processed, successful, failed, filtered >>

batchVars == << currentBatch, currentBatchEnrichment, batchStartIndex >>

outputFile == << outputHeader, outputRows >>

input == << numRows, pattern, flags >>

lookups == << geoCalls, dnsCalls >>

rowObs == << geoCalls, dnsCalls, enrichmentData >>

service == << response, filteredFile, isCanceling >>

\* The variables of the function calls and of the shared store, which the
\* pipeline and the routes of one job leave alone.
functionVars == << call, returned >>

memVars == << memJobs, memResults, resultIdCounter >>

dbVars == << dbJobs, dbResults, dbSerial >>

storeVars == << memVars, scriptPos, dbVars >>

\* The state of the polling client.
client ==
  << currentJobStatus, nextResultIndex, recentResults, polls, drained >>

aside == << functionVars, storeVars, client >>

\* ------------------------------------------------------------------------
\* Storage (MemStorage / DBStorage)
\* ------------------------------------------------------------------------

\* createEnrichmentJob: the record of a new job.  totalIPs comes from the
\* caller, who sends 0 ("will be updated during processing"); timestamps,
\* the error message and the header list are kept as set / not set.
NewJob ==
  [ status               |-> "pending",
    totalIPs             |-> 0,
    processedIPs         |-> 0,
    successfulIPs        |-> 0,
    failedIPs            |-> 0,
    filteredIPs          |-> 0,
    partialSaveAvailable |-> FALSE,
    lastCheckpoint       |-> 0,
    completedAt          |-> FALSE,
    error                |-> FALSE,
    csvHeaders           |-> FALSE ]

\* updateEnrichmentJob: { ...job, ...updates }.
MergeJob(j, updates) ==
  [ f \in DOMAIN j |-> IF f \in DOMAIN updates THEN updates[f] ELSE j[f] ]

\* A checkpoint update that stores the index of the last saved row.
PartialSaveUpdateLastIndex(available, checkpoint) ==
  [ partialSaveAvailable |-> available, lastCheckpoint |-> checkpoint - 1 ]

\* updateJobPartialSaveStatus(jobId, available, checkpoint).
PartialSaveUpdate(available, checkpoint) ==
  [ partialSaveAvailable |-> available, lastCheckpoint |-> checkpoint ]

\* A batch whose records are numbered from 0.
BatchDataFromZero(rows, startIndex) ==
  [ start |-> 0, first |-> rows.first, len |-> rows.len ]

\* The batch saveBatchToDatabase builds: record i of the batch has
\* rowIndex = startIndex + i and originalData = rows[i].
BatchData(rows, startIndex) ==
  [ start |-> startIndex, first |-> rows.first, len |-> rows.len ]

\* saveEnrichmentResults: the whole batch is inserted.
SaveEnrichmentResults(st, batch) ==
  IF batch.len = 0 THEN st ELSE st \cup {batch}

\* The row indexes that have a persisted record.
StoredIndexes ==
  UNION { b.start .. (b.start + b.len - 1) : b \in stored }

\* getResultsCount.
ResultsCount == Cardinality(StoredIndexes)

\* History of the store's failures, kept at every write.
NoteWrite(ok) ==
  /\ writeFailed' = (writeFailed \/ ~ok)
  /\ failCheckpoint' =
       IF ~ok /\ ~writeFailed THEN job.lastCheckpoint ELSE failCheckpoint
  /\ okAfterFail' = (okAfterFail \/ (ok /\ writeFailed))

history == << writeFailed, failCheckpoint, okAfterFail >>

\* ------------------------------------------------------------------------
\* The rows
\* ------------------------------------------------------------------------

RowKind(i) == pattern[(i % Len(pattern)) + 1]

\* A check of the address that only rejects an empty column.
InvalidAddressEmptyOnly(i) == RowKind(i) = "missing"

\* !ipAddress || !isValidIP(ipAddress) (line 209).
InvalidAddress(i) == RowKind(i) \in {"invalid", "missing"}

\* The try block of the row loop succeeds (lines 207-270).
RowSucceeds(i) == RowKind(i) \in {"ok", "isp", "nodns"}

\* getDomainFromIP returns a host name; it returns undefined when the
\* reverse lookup throws or finds no name.
DomainFound(i) == RowKind(i) \in {"ok", "isp"}

\* isCommonISP(ipInfo.isp, ipInfo.org) of a row that was looked up.
IsIsp(i) == RowKind(i) = "isp"

\* The fields of ipInfo copied under includeGeolocation.
GeoFields == {"country", "city", "region", "latitude", "longitude"}

\* The message of the error a failing row throws.
RowError(i) ==
  IF InvalidAddress(i) THEN "Invalid IP address" ELSE "lookup failed"

\* The fields of the job's flags, for a row of which a name was found or
\* not.
FlagFields(domainFound) ==
  (IF flags["includeGeolocation"] THEN GeoFields ELSE {})
    \cup (IF flags["includeDomain"] /\ domainFound THEN {"domain"} ELSE {})
    \cup (IF flags["includeCompany"] THEN {"company", "ispFiltered"} ELSE {})
    \cup (IF flags["includeNetwork"] THEN {"isp", "asn"} ELSE {})

\* An outcome that keeps the fields of the flags when the row fails.
RowDataPartial(i, success) ==
  [ row         |-> i,
    success     |-> success,
    error       |-> (IF success THEN "" ELSE RowError(i)),
    ispFiltered |-> (success /\ flags["includeCompany"] /\ IsIsp(i)),
    fields      |->
      {"success", "ip"} \cup FlagFields(DomainFound(i))
        \cup (IF success THEN {} ELSE {"error"}) ]

\* An outcome whose isp and asn come with includeCompany.
RowDataNetworkWithCompany(i, success) ==
  [ row         |-> i,
    success     |-> success,
    error       |-> (IF success THEN "" ELSE RowError(i)),
    ispFiltered |-> (success /\ flags["includeCompany"] /\ IsIsp(i)),
    fields      |->
      IF success
      THEN {"success", "ip"}
             \cup (IF flags["includeGeolocation"] THEN GeoFields ELSE {})
             \cup (IF flags["includeDomain"] /\ DomainFound(i)
                   THEN {"domain"} ELSE {})
             \cup (IF flags["includeCompany"]
                   THEN {"company", "ispFiltered", "isp", "asn"} ELSE {})
      ELSE {"success", "error", "ip"} ]

\* enrichmentData of a row when it is pushed (line 284), as the store keeps
\* it: `fields` are the keys with a defined value.  The try block sets
\* the fields of the flags and then success and ip (lines 217-268); the
\* catch block sets success, error and ip on the still empty object
\* (lines 276-278).  domain is undefined when no name was found, ip when
\* the address column is empty.
NoData == [ row |-> 0, success |-> FALSE, error |-> "",
            ispFiltered |-> FALSE, fields |-> {} ]

RowData(i, success) ==
  IF success
  THEN [ row         |-> i,
         success     |-> TRUE,
         error       |-> "",
         ispFiltered |-> (flags["includeCompany"] /\ IsIsp(i)),
         fields      |-> {"success", "ip"} \cup FlagFields(DomainFound(i)) ]
  ELSE [ row         |-> i,
         success     |-> FALSE,
         error       |-> RowError(i),
         ispFiltered |-> FALSE,
         fields      |->
           {"success", "error"}
             \cup (IF RowKind(i) = "missing" THEN {} ELSE {"ip"}) ]

\* The header row of the enriched output (lines 175-189); the input file
\* is taken to have the address column only.
OutputHeaders ==
  << "ip" >>
    \o (IF flags["includeGeolocation"]
        THEN << "country", "city", "region", "latitude", "longitude" >>
        ELSE << >>)
    \o (IF flags["includeDomain"] THEN << "domain" >> ELSE << >>)
    \o (IF flags["includeCompany"]
        THEN << "company", "isp_filtered" >> ELSE << >>)
    \o (IF flags["includeNetwork"] THEN << "isp", "asn" >> ELSE << >>)
    \o << "enrichment_success", "enrichment_error" >>

Cell(key, value) == [ key |-> key, value |-> value ]

\* enrichedRow of a row when it is appended to the output (line 287): the
\* keys in the order they were set, with their values.  The catch block
\* adds enrichment_success and enrichment_error to the input columns
\* (lines 273-274).
EnrichedRow(i) ==
  IF RowSucceeds(i)
  THEN << Cell("ip", "address") >>
         \o (IF flags["includeGeolocation"]
             THEN << Cell("country", "info"), Cell("city", "info"),
                     Cell("region", "info"), Cell("latitude", "info"),
                     Cell("longitude", "info") >>
             ELSE << >>)
         \o (IF flags["includeDomain"]
             THEN << Cell("domain", IF DomainFound(i) THEN "name" ELSE "") >>
             ELSE << >>)
         \o (IF flags["includeCompany"]
             THEN << Cell("company", "info"),
                     Cell("isp_filtered", IF IsIsp(i) THEN "yes" ELSE "no") >>
             ELSE << >>)
         \o (IF flags["includeNetwork"]
             THEN << Cell("isp", "info"), Cell("asn", "info") >>
             ELSE << >>)
         \o << Cell("enrichment_success", "true"),
               Cell("enrichment_error", "") >>
  ELSE << Cell("ip", IF RowKind(i) = "missing" THEN "" ELSE "address"),
          Cell("enrichment_success", "false"),
          Cell("enrichment_error", RowError(i)) >>

\* Object.values(enrichedRow) read back by csv-parser: the value under a
\* header is the value at the header's position in the line.
ParsedField(i, header) ==
  LET at == { k \in 1 .. Len(OutputHeaders) : OutputHeaders[k] = header }
      line == EnrichedRow(i)
  IN  IF at # {} /\ (CHOOSE k \in at : TRUE) <= Len(line)
      THEN line[CHOOSE k \in at : TRUE].value
      ELSE "undefined"

\* ------------------------------------------------------------------------
\* enrichIPAddresses
\* ------------------------------------------------------------------------

EmptyBatch == [first |-> 0, len |-> 0]

\* currentBatch.push(row), row being results[i].
PushRow(batch, i) ==
  IF batch.len = 0 THEN [first |-> i, len |-> 1]
  ELSE [first |-> batch.first, len |-> batch.len + 1]

\* A counters update that also writes the total.
CountersUpdateWithTotal ==
  [ totalIPs      |-> processed,
    processedIPs  |-> processed,
    successfulIPs |-> successful,
    failedIPs     |-> failed,
    filteredIPs   |-> filtered ]

\* A counters update that reports the successful rows as the processed.
CountersUpdateSuccessful ==
  [ processedIPs  |-> successful,
    successfulIPs |-> successful,
    failedIPs     |-> failed,
    filteredIPs   |-> filtered ]

\* The counters written when a batch fills (lines 292-297).
CountersUpdate ==
  [ processedIPs  |-> processed,
    successfulIPs |-> successful,
    failedIPs     |-> failed,
    filteredIPs   |-> filtered ]

\* The update that marks the job completed (lines 325-334).
CompletedUpdate ==
  [ status               |-> "completed",
    completedAt          |-> TRUE,
    processedIPs         |-> processed,
    successfulIPs        |-> successful,
    failedIPs            |-> failed,
    filteredIPs          |-> filtered,
    partialSaveAvailable |-> TRUE,
    lastCheckpoint       |-> results ]

\* A failure update that reports every buffered row as processed.
FailedUpdateAllRows ==
  LET base == [ status        |-> "failed",
                error         |-> TRUE,
                processedIPs  |-> results,
                successfulIPs |-> successful,
                failedIPs     |-> failed,
                filteredIPs   |-> filtered ]
  IN  IF batchStartIndex > 0
      THEN base @@ [ partialSaveAvailable |-> TRUE,
                     lastCheckpoint       |-> batchStartIndex ]
      ELSE base

\* A failure update that leaves the error message out.
FailedUpdateNoError ==
  LET base == [ status        |-> "failed",
                processedIPs  |-> processed,
                successfulIPs |-> successful,
                failedIPs     |-> failed,
                filteredIPs   |-> filtered ]
  IN  IF batchStartIndex > 0
      THEN base @@ [ partialSaveAvailable |-> TRUE,
                     lastCheckpoint       |-> batchStartIndex ]
      ELSE base

\* The jobUpdate of the three failure handlers (lines 339-351, 359-371,
\* 379-391).
FailedUpdate ==
  LET base == [ status        |-> "failed",
                error         |-> TRUE,
                processedIPs  |-> processed,
                successfulIPs |-> successful,
                failedIPs     |-> failed,
                filteredIPs   |-> filtered ]
  IN  IF batchStartIndex > 0
      THEN base @@ [ partialSaveAvailable |-> TRUE,
                     lastCheckpoint       |-> batchStartIndex ]
      ELSE base

\* A headers update that writes back the job object the pipeline was
\* started with.
HeadersUpdateWholeJob == [ csvHeaders |-> TRUE, status |-> "pending" ]

\* The update made by the "headers" event (line 161).
HeadersUpdate == [ csvHeaders |-> TRUE ]

\* Where the loop goes after a row or a flush: the next row, or past the
\* loop to the flush of the remaining rows (line 315) or to completion.
AfterRow(done, batchLen) ==
  IF done < results THEN "row"
  ELSE IF batchLen > 0 THEN "finalSave"
  ELSE "complete"

\* An HTTP response: the route, the status code and, of the body, the row
\* indexes of the records or CSV rows it carries, whether they are sample
\* data made up by the route, and the numbers returned with them.
Reply(route, status, offset, limit, rows, fabricated, nextIndex, total) ==
  [ route |-> route, status |-> status, offset |-> offset, limit |-> limit,
    rows |-> rows, fabricated |-> fabricated, nextIndex |-> nextIndex,
    total |-> total ]

\* A response without records: an error message, or an empty page.
Refusal(route, status) == Reply(route, status, 0, 0, << >>, FALSE, 0, 0)

\* No response is being delivered.
NoResponse == Refusal("none", 0)

\* The filtered output file has not been written.
NoFile == [ written |-> FALSE, rows |-> << >> ]

\* An argument of isCommonISP: undefined, or a string; `common` says
\* whether the string was built around an ISP fragment.
Undefined == [ present |-> FALSE, text |-> << >>, common |-> FALSE ]

\* No function is being called.  A call has the function's name and its
\* arguments: for isValidIP the string `ip`, with the pieces it was put
\* together from; for isCommonISP `isp` and `org`.
NoCall ==
  [ fn |-> "none", ip |-> << >>, prefix |-> << >>, groups |-> << >>,
    suffix |-> << >>, isp |-> Undefined, org |-> Undefined ]

\* Nothing has returned: the number of calls made, the value last
\* returned, and ISP_PATTERN.lastIndex.
NotReturned == [ calls |-> 0, value |-> FALSE, lastIndex |-> 0 ]

\* The state in which enrichIPAddresses is called on a new job.
InitPipeline ==
  /\ pc = "start"
  /\ job = NewJob
  /\ stored = {}
  /\ headersSeen = FALSE
  /\ results = 0
  /\ processed = 0
  /\ successful = 0
  /\ failed = 0
  /\ filtered = 0
  /\ currentBatch = EmptyBatch
  /\ currentBatchEnrichment = 0
  /\ batchStartIndex = 0
  /\ outputHeader = FALSE
  /\ outputRows = 0
  /\ thrownBy = "none"
  /\ flushes = << >>
  /\ writeFailed = FALSE
  /\ failCheckpoint = 0
  /\ okAfterFail = FALSE
  /\ geoCalls = 0
  /\ dnsCalls = 0
  /\ enrichmentData = NoData
  /\ response = NoResponse
  /\ filteredFile = NoFile
  /\ isCanceling = FALSE
  /\ headersUpdatePending = FALSE

\* No function is being called.
NoFunction ==
  /\ call = NoCall
  /\ returned = NotReturned

\* The shared store is not used.
NoStore ==
  /\ memJobs = << >>
  /\ memResults = << >>
  /\ resultIdCounter = 1
  /\ scriptPos = << >>
  /\ dbJobs = << >>
  /\ dbResults = << >>
  /\ dbSerial = 1

\* ProcessingSection as it is mounted (lines 16-20): the job as it was
\* created, no result, nothing requested.
NewClient ==
  /\ currentJobStatus = "pending"
  /\ nextResultIndex = 0
  /\ recentResults = << >>
  /\ polls = << >>
  /\ drained = FALSE

\* A job of any of the explored lengths under the default flags.
Init ==
  /\ numRows \in RowCounts
  /\ pattern \in Patterns
  /\ flags = DefaultFlags
  /\ InitPipeline
  /\ NoFunction
  /\ NoStore
  /\ NewClient

\* await storage.updateEnrichmentJob(job.id, { status: "processing" })
\* (line 152); a failure is caught by the outer catch.
SetProcessing ==
  /\ pc = "start"
  /\ \E ok \in BOOLEAN :
       /\ NoteWrite(ok)
       /\ IF ok
          THEN /\ job' = MergeJob(job, [status |-> "processing"])
               /\ pc' = "stream"
          ELSE /\ pc' = "outerCatch"
               /\ UNCHANGED job
  /\ UNCHANGED << input, aside, headersUpdatePending,
                  service, rowObs, stored, locals, outputFile, thrownBy, flushes >>

\* The outer catch (lines 377-395): the failure update, then the throw.
OuterCatch ==
  /\ pc = "outerCatch"
  /\ \E ok \in BOOLEAN :
       /\ NoteWrite(ok)
       /\ job' = IF ok THEN MergeJob(job, FailedUpdate) ELSE job
  /\ pc' = "rejected"
  /\ UNCHANGED << input, aside, headersUpdatePending,
                  service, rowObs, stored, locals, outputFile, thrownBy, flushes >>

\* The "headers" event (lines 157-162): the update of csvHeaders is issued
\* and not awaited.
StreamHeaders ==
  /\ pc = "stream"
  /\ ~headersSeen
  /\ headersSeen' = TRUE
  /\ headersUpdatePending' = TRUE
  /\ UNCHANGED << input, aside, service, rowObs, pc, job, stored, results,
                  counters, batchVars, outputFile, thrownBy, flushes,
                  history >>

\* The update issued by the "headers" event reaches the store (line 161).
\* Nothing awaits it: it is written whenever the store gets to it,
\* whatever the pipeline has done since; it touches csvHeaders only, and a
\* failure of it is not handled.
HeadersUpdateLands ==
  /\ headersUpdatePending
  /\ headersUpdatePending' = FALSE
  /\ \E ok \in BOOLEAN :
       /\ NoteWrite(ok)
       /\ job' = IF ok THEN MergeJob(job, HeadersUpdate) ELSE job
  /\ UNCHANGED << input, aside, service, rowObs, pc, stored, locals,
                  outputFile, thrownBy, flushes >>

\* A "data" event (lines 163-167).
StreamData ==
  /\ pc = "stream"
  /\ headersSeen
  /\ results < numRows
  /\ results' = results + 1
  /\ UNCHANGED << input, aside, headersUpdatePending,
                  service, rowObs, pc, job, stored, headersSeen, counters, batchVars,
                  outputFile, thrownBy, flushes, history >>

\* An "error" event of the file stream (line 154): the input file is
\* missing or cannot be read.  fs.createReadStream(filePath) has no
\* "error" listener, the one of line 357 being attached to the stream
\* that pipe(csvParser()) returns, and pipe does not forward errors: the
\* event is thrown as an uncaught exception and no handler of the pipeline
\* runs.
ReadError ==
  /\ pc = "stream"
  /\ pc' = "crashed"
  /\ UNCHANGED << input, aside, headersUpdatePending,
                  service, rowObs, job, stored, locals, outputFile,
                  thrownBy, flushes, history >>

\* An "error" event of the parser stream (lines 357-375).  When the
\* handler's own update throws, reject is not reached.
StreamError ==
  /\ pc = "stream"
  /\ \E ok \in BOOLEAN :
       /\ NoteWrite(ok)
       /\ job' = IF ok THEN MergeJob(job, FailedUpdate) ELSE job
       /\ pc' = IF ok THEN "rejected" ELSE "hung"
  /\ UNCHANGED << input, aside, headersUpdatePending,
                  service, rowObs, stored, locals, outputFile, thrownBy, flushes >>

\* An "end" handler that goes on to the rows without writing totalIPs.
StreamEndNoTotal ==
  /\ pc = "stream"
  /\ results = numRows
  /\ headersSeen \/ numRows = 0
  /\ \E ok \in BOOLEAN :
       /\ NoteWrite(ok)
       /\ IF ok
          THEN /\ UNCHANGED job
               /\ pc' = "header"
               /\ UNCHANGED thrownBy
          ELSE /\ pc' = "catch"
               /\ thrownBy' = "store"
               /\ UNCHANGED job
  /\ UNCHANGED << input, aside, headersUpdatePending,
                  service, rowObs, stored, locals, outputFile, flushes >>

\* The "end" event up to its first await (lines 168-173).
StreamEnd ==
  /\ pc = "stream"
  /\ results = numRows
  /\ headersSeen \/ numRows = 0
  /\ \E ok \in BOOLEAN :
       /\ NoteWrite(ok)
       /\ IF ok
          THEN /\ job' = MergeJob(job, [totalIPs |-> results])
               /\ pc' = "header"
               /\ UNCHANGED thrownBy
          ELSE /\ pc' = "catch"
               /\ thrownBy' = "store"
               /\ UNCHANGED job
  /\ UNCHANGED << input, aside, headersUpdatePending,
                  service, rowObs, stored, locals, outputFile, flushes >>

\* fs.writeFileSync(outputPath, stringify([outputHeaders])) (lines 175-192).
WriteHeader ==
  /\ pc = "header"
  /\ \E fsOk \in BOOLEAN :
       IF fsOk
       THEN /\ outputHeader' = TRUE
            /\ pc' = AfterRow(processed, currentBatch.len)
            /\ UNCHANGED thrownBy
       ELSE /\ pc' = "catch"
            /\ thrownBy' = "fs"
            /\ UNCHANGED outputHeader
  /\ UNCHANGED << input, aside, headersUpdatePending,
                  service, rowObs, job, stored, locals, outputRows, flushes, history >>

\* An iteration whose row failure is thrown on instead of being caught.
FinishRowRethrow(i, success, batchLen) ==
  /\ enrichmentData' = RowData(i, success)
  /\ IF success
     THEN /\ successful' = successful + 1
          /\ filtered' = filtered + (IF IsIsp(i) THEN 1 ELSE 0)
          /\ currentBatchEnrichment' = currentBatchEnrichment + 1
          /\ outputRows' = outputRows + 1
          /\ pc' = IF batchLen >= BATCH_SIZE THEN "counters"
                   ELSE AfterRow(i + 1, batchLen)
          /\ UNCHANGED << failed, thrownBy >>
     ELSE /\ failed' = failed + 1
          /\ pc' = "catch"
          /\ thrownBy' = "row"
          /\ UNCHANGED << successful, filtered, currentBatchEnrichment,
                          outputRows >>

\* An iteration that appends only the rows that succeeded.
FinishRowSkipFailed(i, success, batchLen) ==
  /\ enrichmentData' = RowData(i, success)
  /\ IF success
     THEN /\ successful' = successful + 1
          /\ filtered' = filtered + (IF IsIsp(i) THEN 1 ELSE 0)
          /\ UNCHANGED failed
     ELSE /\ failed' = failed + 1
          /\ UNCHANGED << successful, filtered >>
  /\ currentBatchEnrichment' = currentBatchEnrichment + 1
  /\ \E fsOk \in BOOLEAN :
       IF fsOk
       THEN /\ outputRows' = outputRows + (IF success THEN 1 ELSE 0)
            /\ pc' = IF batchLen >= BATCH_SIZE THEN "counters"
                     ELSE AfterRow(i + 1, batchLen)
            /\ UNCHANGED thrownBy
       ELSE /\ pc' = "catch"
            /\ thrownBy' = "fs"
            /\ UNCHANGED outputRows

\* An iteration that goes on with the next row when the batch has filled.
FinishRowNoFlush(i, success, batchLen) ==
  /\ enrichmentData' = RowData(i, success)
  /\ IF success
     THEN /\ successful' = successful + 1
          /\ filtered' = filtered + (IF IsIsp(i) THEN 1 ELSE 0)
          /\ UNCHANGED failed
     ELSE /\ failed' = failed + 1
          /\ UNCHANGED << successful, filtered >>
  /\ currentBatchEnrichment' = currentBatchEnrichment + 1
  /\ \E fsOk \in BOOLEAN :
       IF fsOk
       THEN /\ outputRows' = outputRows + 1
            /\ pc' = IF i + 1 < results THEN "row"
                     ELSE AfterRow(i + 1, batchLen)
            /\ UNCHANGED thrownBy
       ELSE /\ pc' = "catch"
            /\ thrownBy' = "fs"
            /\ UNCHANGED outputRows

\* An iteration that counts filtered rows under includeCompany only.
FinishRowFilterWithCompany(i, success, batchLen) ==
  /\ enrichmentData' = RowData(i, success)
  /\ IF success
     THEN /\ successful' = successful + 1
          /\ filtered' = filtered + (IF flags["includeCompany"] /\ IsIsp(i) THEN 1 ELSE 0)
          /\ UNCHANGED failed
     ELSE /\ failed' = failed + 1
          /\ UNCHANGED << successful, filtered >>
  /\ currentBatchEnrichment' = currentBatchEnrichment + 1
  /\ \E fsOk \in BOOLEAN :
       IF fsOk
       THEN /\ outputRows' = outputRows + 1
            /\ pc' = IF batchLen >= BATCH_SIZE THEN "counters"
                     ELSE AfterRow(i + 1, batchLen)
            /\ UNCHANGED thrownBy
       ELSE /\ pc' = "catch"
            /\ thrownBy' = "fs"
            /\ UNCHANGED outputRows

\* The end of an iteration of the row loop (lines 264-290): the row counts
\* as successful or, from the row's catch block, as failed; its outcome is
\* pushed; the row is appended to the enriched output.  A throw of
\* fs.appendFileSync is not a row failure: it leaves the loop for the end
\* handler's catch block.
FinishRow(i, success, batchLen) ==
  /\ enrichmentData' = RowData(i, success)
  /\ IF success
     THEN /\ successful' = successful + 1
          /\ filtered' = filtered + (IF IsIsp(i) THEN 1 ELSE 0)
          /\ UNCHANGED failed
     ELSE /\ failed' = failed + 1
          /\ UNCHANGED << successful, filtered >>
  /\ currentBatchEnrichment' = currentBatchEnrichment + 1
  /\ \E fsOk \in BOOLEAN :
       IF fsOk
       THEN /\ outputRows' = outputRows + 1
            /\ pc' = IF batchLen >= BATCH_SIZE THEN "counters"
                     ELSE AfterRow(i + 1, batchLen)
            /\ UNCHANGED thrownBy
       ELSE /\ pc' = "catch"
            /\ thrownBy' = "fs"
            /\ UNCHANGED outputRows

\* The start of an iteration (lines 195-214): the row is counted and
\* pushed; a missing or invalid address throws into the row's catch block
\* without any await, a valid one calls getIPInfo and awaits it.
RowBegin ==
  /\ pc = "row"
  /\ LET i == processed
         batch == PushRow(currentBatch, i)
     IN  /\ processed' = processed + 1
         /\ currentBatch' = batch
         /\ IF InvalidAddress(i)
            THEN /\ FinishRow(i, FALSE, batch.len)
                 /\ UNCHANGED lookups
            ELSE /\ geoCalls' = geoCalls + 1
                 /\ pc' = "lookup"
                 /\ UNCHANGED << successful, failed, filtered,
                                 currentBatchEnrichment, outputRows, thrownBy,
                                 dnsCalls, enrichmentData >>
  /\ UNCHANGED << input, aside, headersUpdatePending,
                  service, job, stored, headersSeen, results,
                  batchStartIndex, outputHeader, flushes, history >>

\* getIPInfo returns or throws (lines 214-236).  A throw ends the
\* iteration in the row's catch block; after a return, getDomainFromIP is
\* called and awaited when the job has includeDomain, and the iteration
\* ends otherwise.
RowLookup ==
  /\ pc = "lookup"
  /\ LET i == processed - 1
     IN  IF RowKind(i) = "lookupfail"
         THEN /\ FinishRow(i, FALSE, currentBatch.len)
              /\ UNCHANGED lookups
         ELSE IF flags["includeDomain"]
         THEN /\ dnsCalls' = dnsCalls + 1
              /\ pc' = "dns"
              /\ UNCHANGED << successful, failed, filtered,
                              currentBatchEnrichment, outputRows, thrownBy,
                              geoCalls, enrichmentData >>
         ELSE /\ FinishRow(i, TRUE, currentBatch.len)
              /\ UNCHANGED lookups
  /\ UNCHANGED << input, aside, headersUpdatePending,
                  service, job, stored, headersSeen, results,
                  processed, currentBatch, batchStartIndex, outputHeader,
                  flushes, history >>

\* getDomainFromIP returns, with a name or with undefined (lines 68-76,
\* 233-270), and the iteration ends.
RowDomain ==
  /\ pc = "dns"
  /\ FinishRow(processed - 1, TRUE, currentBatch.len)
  /\ UNCHANGED << input, aside, headersUpdatePending,
                  service, lookups, job, stored, headersSeen, results,
                  processed, currentBatch, batchStartIndex, outputHeader,
                  flushes, history >>

\* The counters update made when a batch has filled (lines 290-297).
UpdateCounters ==
  /\ pc = "counters"
  /\ \E ok \in BOOLEAN :
       /\ NoteWrite(ok)
       /\ IF ok
          THEN /\ job' = MergeJob(job, CountersUpdate)
               /\ pc' = "batchSave"
               /\ UNCHANGED thrownBy
          ELSE /\ pc' = "catch"
               /\ thrownBy' = "store"
               /\ UNCHANGED job
  /\ UNCHANGED << input, aside, headersUpdatePending,
                  service, rowObs, stored, locals, outputFile, flushes >>

\* The loop after saveBatchToDatabase has returned (lines 307-311).
ResetBatch ==
  /\ batchStartIndex' = batchStartIndex + currentBatch.len
  /\ currentBatch' = EmptyBatch
  /\ currentBatchEnrichment' = 0
  /\ pc' = AfterRow(processed, 0)

\* The end handler after the last saveBatchToDatabase has returned
\* (lines 322-324).
AfterFinalFlush ==
  /\ pc' = "complete"
  /\ UNCHANGED batchVars

\* A saveBatchToDatabase that throws the failure of the write on to the
\* end handler.
SaveResultsRethrow(at, onSaved, return) ==
  /\ pc = at
  /\ flushes' = Append(flushes, currentBatch.len)
  /\ \E ok \in BOOLEAN :
       /\ NoteWrite(ok)
       /\ IF ok
          THEN /\ stored' = SaveEnrichmentResults(
                              stored, BatchData(currentBatch, batchStartIndex))
               /\ pc' = onSaved
               /\ UNCHANGED thrownBy
          ELSE /\ pc' = "catch"
               /\ thrownBy' = "store"
               /\ UNCHANGED stored
  /\ UNCHANGED << input, aside, headersUpdatePending,
                  service, rowObs, job, headersSeen, results, counters, batchVars,
                  outputFile >>

\* saveBatchToDatabase up to storage.saveEnrichmentResults (lines 103-122);
\* a failure is caught (lines 126-129) and the function returns.
SaveResults(at, onSaved, return) ==
  /\ pc = at
  /\ flushes' = Append(flushes, currentBatch.len)
  /\ \E ok \in BOOLEAN :
       /\ NoteWrite(ok)
       /\ IF ok
          THEN /\ stored' = SaveEnrichmentResults(
                              stored, BatchData(currentBatch, batchStartIndex))
               /\ pc' = onSaved
               /\ UNCHANGED batchVars
          ELSE /\ return
               /\ UNCHANGED stored
  /\ UNCHANGED << input, aside, headersUpdatePending,
                  service, rowObs, job, headersSeen, results, counters, outputFile,
                  thrownBy >>

\* saveBatchToDatabase at storage.updateJobPartialSaveStatus (line 123);
\* a failure is caught (lines 126-129) and the function returns.
SaveCheckpoint(at, return) ==
  /\ pc = at
  /\ \E ok \in BOOLEAN :
       /\ NoteWrite(ok)
       /\ job' = IF ok
                 THEN MergeJob(job, PartialSaveUpdate(
                                 TRUE, batchStartIndex + currentBatch.len))
                 ELSE job
  /\ return
  /\ UNCHANGED << input, aside, headersUpdatePending,
                  service, rowObs, stored, headersSeen, results, counters, outputFile,
                  thrownBy, flushes >>

\* saveBatchToDatabase called from the loop (lines 299-305).
BatchSave == SaveResults("batchSave", "batchCheckpoint", ResetBatch)

BatchCheckpoint == SaveCheckpoint("batchCheckpoint", ResetBatch)

\* saveBatchToDatabase called for the remaining rows (lines 314-322).
FinalSave == SaveResults("finalSave", "finalCheckpoint", AfterFinalFlush)

FinalCheckpoint == SaveCheckpoint("finalCheckpoint", AfterFinalFlush)

\* The completion update (lines 324-336).
Complete ==
  /\ pc = "complete"
  /\ \E ok \in BOOLEAN :
       /\ NoteWrite(ok)
       /\ IF ok
          THEN /\ job' = MergeJob(job, CompletedUpdate)
               /\ pc' = "resolved"
               /\ UNCHANGED thrownBy
          ELSE /\ pc' = "catch"
               /\ thrownBy' = "store"
               /\ UNCHANGED job
  /\ UNCHANGED << input, aside, headersUpdatePending,
                  service, rowObs, stored, locals, outputFile, flushes >>

\* The catch block of the end handler (lines 337-355).  When its own
\* update throws, the promise is never settled.
EndCatch ==
  /\ pc = "catch"
  /\ \E ok \in BOOLEAN :
       /\ NoteWrite(ok)
       /\ IF ok
          THEN /\ job' = MergeJob(job, FailedUpdate)
               /\ pc' = "rejected"
          ELSE /\ pc' = "hung"
               /\ UNCHANGED job
  /\ UNCHANGED << input, aside, headersUpdatePending,
                  service, rowObs, stored, locals, outputFile, thrownBy, flushes >>

Next ==
  \/ SetProcessing
  \/ OuterCatch
  \/ StreamHeaders
  \/ HeadersUpdateLands
  \/ StreamData
  \/ ReadError
  \/ StreamError
  \/ StreamEnd
  \/ WriteHeader
  \/ RowBegin
  \/ RowLookup
  \/ RowDomain
  \/ UpdateCounters
  \/ BatchSave
  \/ BatchCheckpoint
  \/ FinalSave
  \/ FinalCheckpoint
  \/ Complete
  \/ EndCatch

Spec == Init /\ [][Next]_vars

\* The pipeline has stopped working on the job.
Stopped == pc \in {"resolved", "rejected", "hung", "crashed"}

TypeOK ==
  /\ pc \in { "start", "outerCatch", "stream", "crashed", "header", "row",
               "lookup", "dns", "counters", "batchSave", "batchCheckpoint",
               "finalSave", "finalCheckpoint", "complete", "catch",
               "resolved", "rejected", "hung" }
  /\ job.status \in {"pending", "processing", "completed", "failed"}
  /\ processed \in 0..numRows
  /\ results \in 0..numRows
  /\ currentBatch.len \in 0..BATCH_SIZE
  /\ currentBatchEnrichment =
       currentBatch.len - (IF pc \in {"lookup", "dns"} THEN 1 ELSE 0)

\* ------------------------------------------------------------------------
\* The routes of the service (registerRoutes) and its client
\* ------------------------------------------------------------------------

\* const limit = ... : 50 of the recent-results route.
RECENT_LIMIT == 50

\* parseInt(req.query.limit) || 10 of the preview route.
PREVIEW_LIMIT == 10

\* The query parameters explored.
Offsets == {0, 1}

Limits == {1, RECENT_LIMIT}

Pages == {1, 2}

\* The sample data of the recent-results route has 3 + (Date.now() % 3)
\* records: the least and the greatest number are explored.
SampleSizes == {3, 5}

Min(a, b) == IF a <= b THEN a ELSE b

\* The persisted records ordered by rowIndex.
RECURSIVE SortedIndexes(_)
SortedIndexes(batches) ==
  IF batches = {} THEN << >>
  ELSE LET b == CHOOSE x \in batches : \A y \in batches : x.start <= y.start
       IN  [ k \in 1 .. b.len |-> b.start + k - 1 ]
             \o SortedIndexes(batches \ {b})

\* getEnrichmentResults(jobId, offset, limit): the records ordered by
\* rowIndex, `offset` of them skipped, at most `limit` returned.
GetEnrichmentResults(offset, limit) ==
  LET all == SortedIndexes(stored)
  IN  SubSeq(all, offset + 1, Min(offset + limit, Len(all)))

\* The rows of the enriched output that the download route keeps
\* (row.isp_filtered !== "yes").
KeptRows ==
  SelectSeq([ k \in 1 .. outputRows |-> k - 1 ],
            LAMBDA i : ParsedField(i, "isp_filtered") # "yes")

\* A check that lets the results of a failed job through as well.
ServableOrFailed(j) == j.status \in {"completed", "failed"}

\* job.status !== "completed" of the download and preview routes, negated.
Servable(j) == j.status = "completed"

\* GET /api/jobs/:id/download.
Download ==
  /\ response = NoResponse
  /\ IF ~Servable(job)
     THEN /\ response' = Refusal("download", 400)
          /\ UNCHANGED filteredFile
     ELSE IF ~outputHeader
     THEN /\ response' = Refusal("download", 404)
          /\ UNCHANGED filteredFile
     ELSE \E fsOk \in BOOLEAN :
            IF fsOk
            THEN /\ filteredFile' = [ written |-> TRUE, rows |-> KeptRows ]
                 /\ response' = Reply("download", 200, 0, 0, KeptRows, FALSE,
                                      0, Len(KeptRows))
            ELSE /\ response' = Refusal("download", 500)
                 /\ UNCHANGED filteredFile
  /\ UNCHANGED << input, aside, headersUpdatePending,
                  rowObs, isCanceling, pc, job, stored, locals,
                  outputFile, thrownBy, flushes, history >>

\* GET /api/jobs/:id/preview, for a page of the default size; `sample` is
\* the request asking for sample data from a server not in production.
Preview ==
  /\ response = NoResponse
  /\ \E page \in Pages, sample \in BOOLEAN :
       LET offset == (page - 1) * PREVIEW_LIMIT
           found == GetEnrichmentResults(offset, PREVIEW_LIMIT)
       IN  response' =
             IF ~Servable(job) THEN Refusal("preview", 400)
             ELSE IF ~outputHeader THEN Refusal("preview", 404)
             ELSE IF found = << >> /\ sample
             THEN Reply("preview", 200, offset, PREVIEW_LIMIT, << 0 >>, TRUE,
                        0, 5)
             ELSE Reply("preview", 200, offset, PREVIEW_LIMIT, found, FALSE,
                        0, ResultsCount)
  /\ UNCHANGED << input, aside, headersUpdatePending,
                  rowObs, filteredFile, isCanceling, pc, job, stored,
                  locals, outputFile, thrownBy, flushes, history >>

\* GET /api/jobs/:id/recent-results?since=&limit=&sample=.
RecentResults ==
  /\ response = NoResponse
  /\ \E since \in Offsets, limit \in Limits, sample \in BOOLEAN :
       LET found == GetEnrichmentResults(since, limit)
       IN  IF found = << >> /\ sample /\ job.status = "processing"
           THEN \E n \in SampleSizes :
                  response' =
                    Reply("recent", 200, since, limit,
                          [ k \in 1 .. n |-> since + k - 1 ], TRUE,
                          since + n, 0)
           ELSE response' =
                  Reply("recent", 200, since, limit, found, FALSE,
                        since + Len(found), 0)
  /\ UNCHANGED << input, aside, headersUpdatePending,
                  rowObs, filteredFile, isCanceling, pc, job, stored,
                  locals, outputFile, thrownBy, flushes, history >>

\* The response reaches the client.
Deliver ==
  /\ response # NoResponse
  /\ response' = NoResponse
  /\ UNCHANGED << input, aside, headersUpdatePending,
                  rowObs, filteredFile, isCanceling, pc, job, stored,
                  locals, outputFile, thrownBy, flushes, history >>

\* The "Cancel Processing" button of ProcessingSection: setIsCanceling(true).
\* The button is disabled once pressed and when the job is completed; no
\* request is sent to the server.
Cancel ==
  /\ ~isCanceling
  /\ job.status # "completed"
  /\ isCanceling' = TRUE
  /\ UNCHANGED << input, aside, headersUpdatePending,
                  rowObs, response, filteredFile, pc, job, stored,
                  locals, outputFile, thrownBy, flushes, history >>

\* A short job under any flags, or a job of two batches.
InitService ==
  /\ \E j \in ServiceJobs : numRows = j[1] /\ flags = j[2]
  /\ pattern \in Patterns
  /\ InitPipeline
  /\ NoFunction
  /\ NoStore
  /\ NewClient

\* No request is being answered.
Idle == response = NoResponse

\* The pipeline runs while the routes answer requests, one at a time.
NextService ==
  \/ Idle /\ SetProcessing
  \/ Idle /\ OuterCatch
  \/ Idle /\ StreamHeaders
  \/ Idle /\ HeadersUpdateLands
  \/ Idle /\ StreamData
  \/ Idle /\ ReadError
  \/ Idle /\ StreamError
  \/ Idle /\ StreamEnd
  \/ Idle /\ WriteHeader
  \/ Idle /\ RowBegin
  \/ Idle /\ RowLookup
  \/ Idle /\ RowDomain
  \/ Idle /\ UpdateCounters
  \/ Idle /\ BatchSave
  \/ Idle /\ BatchCheckpoint
  \/ Idle /\ FinalSave
  \/ Idle /\ FinalCheckpoint
  \/ Idle /\ Complete
  \/ Idle /\ EndCatch
  \/ Download
  \/ Preview
  \/ RecentResults
  \/ Deliver
  \/ Cancel

SpecService == InitService /\ [][NextService]_vars

\* ------------------------------------------------------------------------
\* isValidIP and isCommonISP, on strings as sequences of characters
\* ------------------------------------------------------------------------

\* The variables of the pipeline and of the routes.
pipelineVars ==
  << pc, job, stored, locals, outputFile, thrownBy, flushes, history, rowObs,
     service, headersUpdatePending >>

DecimalDigits == << "0", "1", "2", "3", "4", "5", "6", "7", "8", "9" >>

\* \d of the regular expression.
IsDigit(c) == \E d \in DOMAIN DecimalDigits : DecimalDigits[d] = c

DigitValue(c) == (CHOOSE d \in DOMAIN DecimalDigits : DecimalDigits[d] = c) - 1

\* parseInt(part) of a string of digits.
RECURSIVE ParseInt(_)
ParseInt(part) ==
  IF part = << >> THEN 0
  ELSE 10 * ParseInt(SubSeq(part, 1, Len(part) - 1))
         + DigitValue(part[Len(part)])

\* ipv4Regex.test(ip), for /^(\d{1,3})\.(\d{1,3})\.(\d{1,3})\.(\d{1,3})$/:
\* the string is read from position k on, `group` being the group that is
\* being read and `digits` the number of its digits read so far.
RECURSIVE MatchIpv4(_, _, _, _)
MatchIpv4(ip, k, group, digits) ==
  IF k > Len(ip) THEN group = 4 /\ digits >= 1
  ELSE IF IsDigit(ip[k])
  THEN digits < 3 /\ MatchIpv4(ip, k + 1, group, digits + 1)
  ELSE IF ip[k] = "."
  THEN digits >= 1 /\ group < 4 /\ MatchIpv4(ip, k + 1, group + 1, 0)
  ELSE FALSE

\* ip.split('.').
RECURSIVE Split(_)
Split(ip) ==
  IF \A k \in DOMAIN ip : ip[k] # "." THEN << ip >>
  ELSE LET dot == CHOOSE k \in DOMAIN ip :
                    ip[k] = "." /\ \A j \in 1 .. (k - 1) : ip[j] # "."
       IN  << SubSeq(ip, 1, dot - 1) >> \o Split(SubSeq(ip, dot + 1, Len(ip)))

\* A check of the parts that accepts every number.
PartAny(part) == TRUE

\* parseInt(part) <= 255.
PartInRange(part) == ParseInt(part) <= 255

\* isValidIP (lines 45-51).
IsValidIP(ip) ==
  IF ~MatchIpv4(ip, 1, 1, 0) THEN FALSE
  ELSE LET parts == Split(ip)
       IN  \A k \in DOMAIN parts : PartInRange(parts[k])

\* The strings isValidIP is called with are put together from at most
\* MaxGroups groups.
MaxGroups == 5

\* The groups: empty, in range, the largest in range, the smallest out of
\* range, not a number, too long.
Groups ==
  { << >>, << "0" >>, << "2", "5", "5" >>, << "2", "5", "6" >>,
    << "1", "a" >>, << "0", "0", "0", "0" >> }

\* What may stand before the first group and after the last.
Garbage == { << >>, << " " >> }

\* The groups joined by dots.
RECURSIVE JoinDots(_)
JoinDots(groups) ==
  IF Len(groups) = 0 THEN << >>
  ELSE IF Len(groups) = 1 THEN groups[1]
  ELSE groups[1] \o << "." >> \o JoinDots(Tail(groups))

\* The calls of isValidIP explored.
IsValidIPCalls ==
  { [ fn |-> "isValidIP", ip |-> pre \o JoinDots(gs) \o post,
      prefix |-> pre, groups |-> gs, suffix |-> post,
      isp |-> Undefined, org |-> Undefined ] :
      pre \in Garbage, post \in Garbage,
      gs \in UNION { [1 .. n -> Groups] : n \in 0 .. MaxGroups } }

\* const COMMON_ISPS (lines 17-37).
COMMON_ISPS ==
  << << "t", "e", "l", "s", "t", "r", "a" >>,
     << "c", "o", "m", "c", "a", "s", "t" >>,
     << "c", "o", "x" >>,
     << "v", "e", "r", "i", "z", "o", "n" >>,
     << "b", "t" >>,
     << "a", "t", "&", "t" >>,
     << "s", "p", "e", "c", "t", "r", "u", "m" >>,
     << "c", "h", "a", "r", "t", "e", "r" >>,
     << "t", "i", "m", "e", " ", "w", "a", "r", "n", "e", "r" >>,
     << "v", "i", "r", "g", "i", "n", " ", "m", "e", "d", "i", "a" >>,
     << "s", "p", "r", "i", "n", "t" >>,
     << "t", "-", "m", "o", "b", "i", "l", "e" >>,
     << "d", "e", "u", "t", "s", "c", "h", "e", " ", "t", "e", "l", "e",
        "k", "o", "m" >>,
     << "v", "o", "d", "a", "f", "o", "n", "e" >>,
     << "o", "r", "a", "n", "g", "e" >>,
     << "r", "o", "g", "e", "r", "s" >>,
     << "b", "e", "l", "l" >>,
     << "s", "h", "a", "w" >>,
     << "t", "e", "l", "e", "c", "o", "m" >> >>

\* The flags of ISP_PATTERN with "g" added.
PatternFlagsGlobal == {"g", "i"}

\* new RegExp(COMMON_ISPS.join('|'), 'i') (line 40): the flags.
PatternFlags == {"i"}

UpperCase ==
  << "A", "B", "C", "D", "E", "F", "G", "H", "I", "J", "K", "L", "M", "N",
     "O", "P", "Q", "R", "S", "T", "U", "V", "W", "X", "Y", "Z" >>

LowerCase ==
  << "a", "b", "c", "d", "e", "f", "g", "h", "i", "j", "k", "l", "m", "n",
     "o", "p", "q", "r", "s", "t", "u", "v", "w", "x", "y", "z" >>

\* The character as the "i" flag compares it.
Fold(c) ==
  IF "i" \in PatternFlags /\ \E k \in DOMAIN UpperCase : UpperCase[k] = c
  THEN LowerCase[CHOOSE k \in DOMAIN UpperCase : UpperCase[k] = c]
  ELSE c

\* The alternative `fragment` of the pattern matches the text at `at`.
MatchesAt(text, at, fragment) ==
  /\ at + Len(fragment) - 1 <= Len(text)
  /\ \A k \in DOMAIN fragment :
       Fold(text[at + k - 1]) = Fold(fragment[k])

\* ISP_PATTERN.test(text) with lastIndex as it is: the leftmost position
\* at which an alternative matches, the first such alternative, and the
\* lastIndex the call leaves.  Without the "g" flag the search starts at 0
\* and lastIndex is not written.
PatternTest(text, lastIndex) ==
  LET from == IF "g" \in PatternFlags THEN lastIndex + 1 ELSE 1
      hits == { at \in from .. Len(text) :
                  \E f \in DOMAIN COMMON_ISPS :
                     MatchesAt(text, at, COMMON_ISPS[f]) }
  IN  IF hits = {}
      THEN [ matched |-> FALSE,
             lastIndex |-> IF "g" \in PatternFlags THEN 0 ELSE lastIndex ]
      ELSE LET at == CHOOSE h \in hits : \A g \in hits : h <= g
               f == CHOOSE x \in DOMAIN COMMON_ISPS :
                      /\ MatchesAt(text, at, COMMON_ISPS[x])
                      /\ \A y \in 1 .. (x - 1) :
                           ~MatchesAt(text, at, COMMON_ISPS[y])
           IN  [ matched |-> TRUE,
                 lastIndex |-> IF "g" \in PatternFlags
                               THEN at + Len(COMMON_ISPS[f]) - 1
                               ELSE lastIndex ]

\* !isp: the argument is undefined or the empty string.
Falsy(arg) == ~arg.present \/ arg.text = << >>

\* isCommonISP(isp, org) (lines 56-63) called with ISP_PATTERN.lastIndex
\* as it is: the value returned and the lastIndex left.
IsCommonISP(isp, org, lastIndex) ==
  IF Falsy(isp) /\ Falsy(org)
  THEN [ value |-> FALSE, lastIndex |-> lastIndex ]
  ELSE LET first == IF Falsy(isp)
                    THEN [ matched |-> FALSE, lastIndex |-> lastIndex ]
                    ELSE PatternTest(isp.text, lastIndex)
       IN  IF first.matched
           THEN [ value |-> TRUE, lastIndex |-> first.lastIndex ]
           ELSE LET second == IF Falsy(org)
                              THEN [ matched |-> FALSE,
                                     lastIndex |-> first.lastIndex ]
                              ELSE PatternTest(org.text, first.lastIndex)
                IN  [ value |-> second.matched,
                      lastIndex |-> second.lastIndex ]

\* The names isCommonISP is called with are put together from a word
\* before, a middle and a word after.
Before == { << >>, << "A", "c", "m", "e", " " >> }

After == { << >>, << " ", "I", "n", "c" >> }

\* Middles written as an ISP fragment, in lower, upper and mixed case.
CommonMiddles ==
  { << "c", "o", "x" >>, << "C", "O", "X" >>, << "A", "T", "&", "T" >>,
    << "T", "-", "M", "o", "b", "i", "l", "e" >>,
    << "T", "i", "m", "e", " ", "W", "a", "r", "n", "e", "r" >>,
    << "b", "T" >> }

\* Middles that contain no ISP fragment.
OtherMiddles ==
  { << >>, << "G", "o", "o", "g", "l", "e" >>, << "c", "-", "o", "x" >>,
    << "A", "T", "T" >>, << "b", " ", "t" >> }

\* The arguments explored: undefined, or a name.
Names ==
  { Undefined }
    \cup { [ present |-> TRUE, text |-> b \o m \o a, common |-> TRUE ] :
             b \in Before, m \in CommonMiddles, a \in After }
    \cup { [ present |-> TRUE, text |-> b \o m \o a, common |-> FALSE ] :
             b \in { << >> }, m \in OtherMiddles, a \in After }

\* The calls of isCommonISP explored.
IsCommonISPCalls ==
  { [ fn |-> "isCommonISP", ip |-> << >>, prefix |-> << >>,
      groups |-> << >>, suffix |-> << >>, isp |-> i, org |-> o ] :
      i \in Names, o \in Names }

\* isValidIP(call.ip) is called and returns.
IsValidIPCall ==
  /\ call.fn = "isValidIP"
  /\ returned.calls = 0
  /\ returned' = [ calls |-> 1, value |-> IsValidIP(call.ip),
                   lastIndex |-> returned.lastIndex ]
  /\ UNCHANGED << input, pipelineVars, call, storeVars, client >>

\* isCommonISP(call.isp, call.org) is called, a first and a second time,
\* and returns.
IsCommonISPCall ==
  /\ call.fn = "isCommonISP"
  /\ returned.calls < 2
  /\ LET r == IsCommonISP(call.isp, call.org, returned.lastIndex)
     IN  returned' = [ calls |-> returned.calls + 1, value |-> r.value,
                      lastIndex |-> r.lastIndex ]
  /\ UNCHANGED << input, pipelineVars, call, storeVars, client >>

\* A call of one of the two functions, outside any job.
InitFunctions ==
  /\ numRows = 0
  /\ pattern = << "ok" >>
  /\ flags = DefaultFlags
  /\ InitPipeline
  /\ NoStore
  /\ NewClient
  /\ call \in IsValidIPCalls \cup IsCommonISPCalls
  /\ returned = NotReturned

NextFunctions ==
  \/ IsValidIPCall
  \/ IsCommonISPCall

SpecFunctions == InitFunctions /\ [][NextFunctions]_vars

\* ------------------------------------------------------------------------
\* Two pipelines on one store (MemStorage)
\* ------------------------------------------------------------------------

\* The ids of the two jobs.
StoreJobIds == {1, 10}

\* The smaller of the two jobs has SmallJobRows rows.
SmallJobRows == 2

\* The number of rows of each job: more than one batch, and less.
StoreRows == [ id \in StoreJobIds |-> IF id = 1 THEN BATCH_SIZE + 1
                                               ELSE SmallJobRows ]

\* `${n}`: the decimal numeral of a number.
RECURSIVE Digits(_)
Digits(n) ==
  IF n < 10 THEN << DecimalDigits[n + 1] >>
  ELSE Digits(n \div 10) \o << DecimalDigits[(n % 10) + 1] >>

\* A key made of the row index alone.
ResultKeyRowOnly(jobId, rowIndex) == Digits(rowIndex)

\* compositeKey = `${result.jobId}-${result.rowIndex}` (line 470).
ResultKey(jobId, rowIndex) ==
  Digits(jobId) \o << "-" >> \o Digits(rowIndex)

\* The store: the two maps and the counter of MemStorage.
Store(jobs, records, counter) ==
  [ jobs |-> jobs, results |-> records, counter |-> counter ]

\* MemStorage.updateEnrichmentJob (lines 440-447).
MemUpdateEnrichmentJob(st, id, updates) ==
  IF id \notin DOMAIN st.jobs THEN st
  ELSE Store([st.jobs EXCEPT ![id] = MergeJob(st.jobs[id], updates)],
             st.results, st.counter)

\* MemStorage.updateJobPartialSaveStatus (lines 505-517).
MemUpdateJobPartialSaveStatus(st, jobId, available, checkpoint) ==
  IF jobId \notin DOMAIN st.jobs THEN st
  ELSE Store([st.jobs EXCEPT ![jobId] =
                MergeJob(st.jobs[jobId],
                         PartialSaveUpdate(available, checkpoint))],
             st.results, st.counter)

\* MemStorage.saveEnrichmentResults (lines 465-490) of the batch that
\* saveBatchToDatabase builds from `len` rows starting at startIndex
\* (lines 104-118): record i gets the next id and is set under its key,
\* so that a key holds the last record of the batch that was set under it.
MemSaveEnrichmentResults(st, jobId, startIndex, len) ==
  LET record(i) == [ id           |-> st.counter + i,
                     jobId        |-> jobId,
                     rowIndex     |-> startIndex + i,
                     originalData |-> << jobId, startIndex + i >> ]
      set == { << ResultKey(jobId, startIndex + i), i >> :
                 i \in 0 .. (len - 1) }
      keys == { p[1] : p \in set }
      last(k) == LET under == { p[2] : p \in { q \in set : q[1] = k } }
                 IN  CHOOSE i \in under : \A j \in under : j <= i
  IN  Store(st.jobs,
            [ k \in DOMAIN st.results \cup keys |->
                IF k \in keys THEN record(last(k)) ELSE st.results[k] ],
            st.counter + len)

\* The counters of a job whose first n rows all succeeded.
CountersOf(n) ==
  [ processedIPs |-> n, successfulIPs |-> n, failedIPs |-> 0,
    filteredIPs |-> 0 ]

Update(updates) == [ op |-> "updateEnrichmentJob", updates |-> updates ]

Save(startIndex, len) ==
  [ op |-> "saveEnrichmentResults", startIndex |-> startIndex, len |-> len ]

Checkpoint(checkpoint) ==
  [ op |-> "updateJobPartialSaveStatus", available |-> TRUE,
    checkpoint |-> checkpoint ]

\* The storage calls of the loop of enrichIPAddresses from row `done` on
\* (lines 292-305, 314-322): at each full batch the counters, the batch
\* and the checkpoint; at the end the remaining rows and the checkpoint.
RECURSIVE LoopCalls(_, _)
LoopCalls(done, n) ==
  IF n - done >= BATCH_SIZE
  THEN << Update(CountersOf(done + BATCH_SIZE)), Save(done, BATCH_SIZE),
          Checkpoint(done + BATCH_SIZE) >>
         \o LoopCalls(done + BATCH_SIZE, n)
  ELSE IF n - done > 0
  THEN << Save(done, n - done), Checkpoint(n) >>
  ELSE << >>

\* The storage calls of a run of enrichIPAddresses on n rows that all
\* succeed: status processing (line 151), totalIPs (line 170), the loop,
\* the completion update (lines 325-334); the update of the "headers"
\* event (line 161), which is not awaited, lands right away or last.
Scripts(n) ==
  LET completed ==
        Update([ status |-> "completed", completedAt |-> TRUE,
                 partialSaveAvailable |-> TRUE, lastCheckpoint |-> n ]
                 @@ CountersOf(n))
      before == << Update([ status |-> "processing" ]) >>
      after == << Update([ totalIPs |-> n ]) >> \o LoopCalls(0, n)
                 \o << completed >>
  IN  { before \o << Update(HeadersUpdate) >> \o after,
        before \o after \o << Update(HeadersUpdate) >> }

\* A storage call applied to the store.
ApplyCall(st, id, c) ==
  IF c.op = "updateEnrichmentJob"
  THEN MemUpdateEnrichmentJob(st, id, c.updates)
  ELSE IF c.op = "saveEnrichmentResults"
  THEN MemSaveEnrichmentResults(st, id, c.startIndex, c.len)
  ELSE MemUpdateJobPartialSaveStatus(st, id, c.available, c.checkpoint)

\* The store as the variables hold it.
TheStore == Store(memJobs, memResults, resultIdCounter)

\* The next storage call of job id.
NextCall(id) == scriptPos[id].calls[scriptPos[id].made + 1]

\* Job id makes its next storage call, which is of kind op.
StoreCall(id, op) ==
  /\ scriptPos # << >>
  /\ scriptPos[id].made < Len(scriptPos[id].calls)
  /\ NextCall(id).op = op
  /\ LET st == ApplyCall(TheStore, id, NextCall(id))
     IN  /\ memJobs' = st.jobs
         /\ memResults' = st.results
         /\ resultIdCounter' = st.counter
  /\ scriptPos' = [ scriptPos EXCEPT ![id].made = @ + 1 ]
  /\ UNCHANGED << input, pipelineVars, functionVars, dbVars, client >>

UpdateEnrichmentJobCall ==
  \E id \in StoreJobIds : StoreCall(id, "updateEnrichmentJob")

SaveEnrichmentResultsCall ==
  \E id \in StoreJobIds : StoreCall(id, "saveEnrichmentResults")

UpdateJobPartialSaveStatusCall ==
  \E id \in StoreJobIds : StoreCall(id, "updateJobPartialSaveStatus")

\* createEnrichmentJob has been called for both jobs; no result is stored.
NewStore ==
  Store([ id \in StoreJobIds |-> NewJob ], << >>, 1)

\* Two jobs have been created and their pipelines are about to start.
InitStore ==
  /\ numRows = 0
  /\ pattern = << "ok" >>
  /\ flags = DefaultFlags
  /\ InitPipeline
  /\ NoFunction
  /\ NewClient
  /\ memJobs = NewStore.jobs
  /\ memResults = NewStore.results
  /\ resultIdCounter = NewStore.counter
  /\ dbJobs = << >>
  /\ dbResults = << >>
  /\ dbSerial = 1
  /\ \E calls \in [ StoreJobIds -> UNION { Scripts(StoreRows[id]) :
                                            id \in StoreJobIds } ] :
       /\ \A id \in StoreJobIds : calls[id] \in Scripts(StoreRows[id])
       /\ scriptPos = [ id \in StoreJobIds |->
                          [ calls |-> calls[id], made |-> 0 ] ]

NextStore ==
  \/ UpdateEnrichmentJobCall
  \/ SaveEnrichmentResultsCall
  \/ UpdateJobPartialSaveStatusCall

SpecStore == InitStore /\ [][NextStore]_vars

\* The store after job id has made its first `made` calls alone.
RECURSIVE Alone(_, _)
Alone(id, made) ==
  IF made = 0 THEN NewStore
  ELSE ApplyCall(Alone(id, made - 1), id, scriptPos[id].calls[made])

\* The result records of job id in a map of results, as ResultRecords:
\* the job, the row index and the data.
RecordsOf(records, id) ==
  { [ jobId |-> records[k].jobId, rowIndex |-> records[k].rowIndex,
      originalData |-> records[k].originalData ] :
      k \in { x \in DOMAIN records : records[x].jobId = id } }

\* ------------------------------------------------------------------------
\* MemStorage and DBStorage side by side
\* ------------------------------------------------------------------------

\* At most MaxSavedRows records are saved in all.
MaxSavedRows == 4

\* A batch saved has at most MaxSaveLen records.
MaxSaveLen == 2

\* The function f on the arguments in `keep`.
Restrict(f, keep) == [ k \in keep |-> f[k] ]

\* key.startsWith(prefix).
StartsWith(key, prefix) ==
  /\ Len(prefix) <= Len(key)
  /\ SubSeq(key, 1, Len(prefix)) = prefix

\* A prefix made of the id alone.
DeletePrefixNoDash(id) == Digits(id)

\* `${id}-` (line 452).
DeletePrefix(id) == Digits(id) \o << "-" >>

\* MemStorage.deleteEnrichmentJob (lines 449-456): the results whose key
\* starts with the prefix are deleted, then the job.
MemDeleteEnrichmentJob(st, id) ==
  Store(Restrict(st.jobs, DOMAIN st.jobs \ {id}),
        Restrict(st.results,
                 { k \in DOMAIN st.results :
                     ~StartsWith(k, DeletePrefix(id)) }),
        st.counter)

\* The database: the two tables and the sequence of the results' ids.
Database(jobs, rows, serial) ==
  [ jobs |-> jobs, rows |-> rows, serial |-> serial ]

TheDatabase == Database(dbJobs, dbResults, dbSerial)

\* DBStorage.saveEnrichmentResults (lines 324-329) of the batch that
\* saveBatchToDatabase builds: one row is inserted for each record.
DbSaveEnrichmentResults(db, jobId, startIndex, len) ==
  Database(db.jobs,
           db.rows \o [ i \in 1 .. len |->
                          [ id           |-> db.serial + i - 1,
                            jobId        |-> jobId,
                            rowIndex     |-> startIndex + i - 1,
                            originalData |-> << jobId, startIndex + i - 1 >> ] ],
           db.serial + len)

\* DBStorage.deleteEnrichmentJob (lines 301-308): delete from
\* ip_enrichment_results where job_id = id, then the job.
DbDeleteEnrichmentJob(db, id) ==
  Database(Restrict(db.jobs, DOMAIN db.jobs \ {id}),
           SelectSeq(db.rows, LAMBDA r : r.jobId # id),
           db.serial)

\* A record as the storage interface returns it, without the id and the
\* timestamps the store gives it.
Returned(r) ==
  [ jobId |-> r.jobId, rowIndex |-> r.rowIndex,
    originalData |-> r.originalData ]

\* The records of the sequence ordered by rowIndex; records of equal
\* rowIndex keep their order.
RECURSIVE SortByRowIndex(_)
SortByRowIndex(rows) ==
  IF rows = << >> THEN << >>
  ELSE LET least == CHOOSE k \in DOMAIN rows :
                      /\ \A j \in DOMAIN rows :
                           rows[k].rowIndex <= rows[j].rowIndex
                      /\ \A j \in 1 .. (k - 1) :
                           rows[j].rowIndex # rows[k].rowIndex
       IN  << rows[least] >>
             \o SortByRowIndex(SubSeq(rows, 1, least - 1)
                                 \o SubSeq(rows, least + 1, Len(rows)))

\* offset records skipped, at most limit returned.
Slice(rows, offset, limit) ==
  SubSeq(rows, offset + 1, Min(offset + limit, Len(rows)))

\* The values of the map of results in some order.
RECURSIVE Values(_)
Values(records) ==
  IF DOMAIN records = {} THEN << >>
  ELSE LET k == CHOOSE x \in DOMAIN records : TRUE
       IN  << records[k] >>
             \o Values(Restrict(records, DOMAIN records \ {k}))

\* MemStorage.getEnrichmentResults (lines 492-497).
MemGetEnrichmentResults(st, jobId, offset, limit) ==
  Slice(SortByRowIndex(SelectSeq(Values(st.results),
                                 LAMBDA r : r.jobId = jobId)),
        offset, limit)

\* MemStorage.getResultsCount (lines 499-503).
MemGetResultsCount(st, jobId) ==
  Cardinality({ k \in DOMAIN st.results : st.results[k].jobId = jobId })

\* DBStorage.getEnrichmentResults (lines 331-338).
DbGetEnrichmentResults(db, jobId, offset, limit) ==
  Slice(SortByRowIndex(SelectSeq(db.rows, LAMBDA r : r.jobId = jobId)),
        offset, limit)

\* DBStorage.getResultsCount (lines 340-346).
DbGetResultsCount(db, jobId) ==
  Len(SelectSeq(db.rows, LAMBDA r : r.jobId = jobId))

\* saveEnrichmentResults is called on both stores with the same batch of
\* an existing job.
SaveEnrichmentResultsBoth ==
  /\ dbJobs # << >>
  /\ \E jobId \in DOMAIN memJobs, startIndex \in 0 .. 1,
        len \in 1 .. MaxSaveLen :
       /\ dbSerial + len - 1 <= MaxSavedRows
       /\ LET st == MemSaveEnrichmentResults(TheStore, jobId, startIndex,
                                             len)
              db == DbSaveEnrichmentResults(TheDatabase, jobId, startIndex,
                                            len)
          IN  /\ memResults' = st.results
              /\ resultIdCounter' = st.counter
              /\ dbResults' = db.rows
              /\ dbSerial' = db.serial
  /\ UNCHANGED << input, pipelineVars, functionVars, memJobs, dbJobs,
                  scriptPos, client >>

\* deleteEnrichmentJob is called on both stores for an existing job.
DeleteEnrichmentJobBoth ==
  /\ dbJobs # << >>
  /\ \E id \in DOMAIN memJobs :
       LET st == MemDeleteEnrichmentJob(TheStore, id)
           db == DbDeleteEnrichmentJob(TheDatabase, id)
       IN  /\ memJobs' = st.jobs
           /\ memResults' = st.results
           /\ dbJobs' = db.jobs
           /\ dbResults' = db.rows
  /\ UNCHANGED << input, pipelineVars, functionVars, resultIdCounter,
                  dbSerial, scriptPos, client >>

\* The two jobs have been created in a MemStorage and in a DBStorage.
InitStorages ==
  /\ numRows = 0
  /\ pattern = << "ok" >>
  /\ flags = DefaultFlags
  /\ InitPipeline
  /\ NoFunction
  /\ NewClient
  /\ memJobs = NewStore.jobs
  /\ memResults = NewStore.results
  /\ resultIdCounter = NewStore.counter
  /\ scriptPos = << >>
  /\ dbJobs = NewStore.jobs
  /\ dbResults = << >>
  /\ dbSerial = 1

NextStorages ==
  \/ SaveEnrichmentResultsBoth
  \/ DeleteEnrichmentJobBoth

SpecStorages == InitStorages /\ [][NextStorages]_vars

\* ------------------------------------------------------------------------
\* The polling client (ProcessingSection) and the recent-results route
\* ------------------------------------------------------------------------

\* getRecentResults(jobId, since = 0, limit = 50): the limit the client
\* sends.
POLL_LIMIT == 50

\* At most MaxPolls requests of the client are in flight.
MaxPolls == 2

\* The poll of the job status (lines 24-51): setCurrentJob(updatedJob),
\* until the job is seen completed or failed.
RefreshJob ==
  /\ currentJobStatus \notin {"completed", "failed"}
  /\ currentJobStatus' = job.status
  /\ currentJobStatus' # currentJobStatus
  /\ UNCHANGED << input, pipelineVars, functionVars, storeVars,
                  nextResultIndex, recentResults, polls, drained >>

\* fetchResults is called (lines 68-70), by the effect as it runs or by
\* its interval, which does not wait for the request before: the request
\* carries the nextResultIndex of the moment.
Poll ==
  /\ currentJobStatus = "processing"
  /\ Len(polls) < MaxPolls
  /\ polls' = Append(polls, [ since |-> nextResultIndex, served |-> FALSE,
                              results |-> << >>, nextIndex |-> 0,
                              stopped |-> FALSE ])
  /\ UNCHANGED << input, pipelineVars, functionVars, storeVars,
                  currentJobStatus, nextResultIndex, recentResults, drained >>

\* The recent-results route answers a request of the client (part_007
\* lines 105-188): no sample is asked for, so the records found are
\* returned with nextIndex = since + results.length.
ServePoll ==
  /\ \E k \in DOMAIN polls :
       /\ ~polls[k].served
       /\ LET found == GetEnrichmentResults(polls[k].since, POLL_LIMIT)
          IN  polls' = [ polls EXCEPT ![k] =
                          [ since |-> polls[k].since, served |-> TRUE,
                            results |-> found,
                            nextIndex |-> polls[k].since + Len(found),
                            stopped |-> (pc \in {"resolved", "rejected",
                                                 "hung", "crashed"}) ] ]
  /\ UNCHANGED << input, pipelineVars, functionVars, storeVars,
                  currentJobStatus, nextResultIndex, recentResults, drained >>

\* The sequence without its element k.
Without(seq, k) ==
  SubSeq(seq, 1, k - 1) \o SubSeq(seq, k + 1, Len(seq))

\* A response reaches fetchResults (lines 72-75): results that are not
\* empty are appended and nextResultIndex is set to the response's
\* nextIndex.
ReceivePoll ==
  /\ \E k \in DOMAIN polls :
       /\ polls[k].served
       /\ polls' = Without(polls, k)
       /\ IF Len(polls[k].results) > 0
          THEN /\ recentResults' = recentResults \o polls[k].results
               /\ nextResultIndex' = polls[k].nextIndex
               /\ UNCHANGED drained
          ELSE /\ drained' = (drained \/ polls[k].stopped)
               /\ UNCHANGED << recentResults, nextResultIndex >>
  /\ UNCHANGED << input, pipelineVars, functionVars, storeVars,
                  currentJobStatus >>

\* A job of one row, or of two batches, watched by the client.
InitClient ==
  /\ numRows \in {1, BATCH_SIZE + 1}
  /\ pattern = << "ok" >>
  /\ flags = DefaultFlags
  /\ InitPipeline
  /\ NoFunction
  /\ NoStore
  /\ NewClient

NextClient ==
  \/ SetProcessing
  \/ OuterCatch
  \/ StreamHeaders
  \/ HeadersUpdateLands
  \/ StreamData
  \/ ReadError
  \/ StreamError
  \/ StreamEnd
  \/ WriteHeader
  \/ RowBegin
  \/ RowLookup
  \/ RowDomain
  \/ UpdateCounters
  \/ BatchSave
  \/ BatchCheckpoint
  \/ FinalSave
  \/ FinalCheckpoint
  \/ Complete
  \/ EndCatch
  \/ RefreshJob
  \/ Poll
  \/ ServePoll
  \/ ReceivePoll

SpecClient == InitClient /\ [][NextClient]_vars

\* ------------------------------------------------------------------------
\* Properties
\* ------------------------------------------------------------------------

\* C1: every row index strictly below the job's persisted lastCheckpoint
\* has a persisted result record of the job.
C1_CheckpointCovered ==
  \A k \in 0 .. (job.lastCheckpoint - 1) : k \in StoredIndexes

\* C2: the persisted lastCheckpoint never decreases: no write of the
\* pipeline stores a checkpoint smaller than the one already stored.
C2_CheckpointMonotonic ==
  [][job'.lastCheckpoint >= job.lastCheckpoint]_vars

\* C3: at every observation of the persisted job record,
\* lastCheckpoint <= processedIPs.
C3_CheckpointAtMostProcessed ==
  job.lastCheckpoint <= job.processedIPs

\* C4: in every persisted state of the job record,
\* processedIPs = successfulIPs + failedIPs.
C4_CountersAddUp ==
  job.processedIPs = job.successfulIPs + job.failedIPs

\* C4 witness: a failure handler has written the counters in the middle of
\* a batch, with rows of both outcomes counted.
C4_Witness ==
  /\ job.status = "failed"
  /\ job.processedIPs % BATCH_SIZE # 0
  /\ job.successfulIPs > 0
  /\ job.failedIPs > 0

StatusRank(s) ==
  CASE s = "pending" -> 0
    [] s = "processing" -> 1
    [] s \in {"completed", "failed"} -> 2

\* C5: the job status only moves forward along
\* pending -> processing -> {completed, failed}, and a status of completed
\* or failed is never changed by a later write.
C5_StatusForward ==
  [][ /\ StatusRank(job'.status) >= StatusRank(job.status)
      /\ job.status \in {"completed", "failed"} => job'.status = job.status
    ]_vars

\* C5 witness: the job has gone through processing and was then marked
\* failed by the end handler's catch block.
C5_Witness ==
  /\ job.status = "failed"
  /\ pc = "rejected"
  /\ thrownBy # "none"

\* A step of saveBatchToDatabase in which storage.saveEnrichmentResults
\* was called, and whether it threw.
SaveStep == pc \in {"batchSave", "finalSave"} /\ pc' # pc

SaveFailedStep == SaveStep /\ stored' = stored

\* C6: when the write of a batch fails, the rows of the batch stay in the
\* in-memory buffer and are written by the next flush: once a flush
\* succeeds, every row processed so far has a persisted record.
C6_FailedBatchRetained ==
  [][ /\ SaveFailedStep => currentBatch' = currentBatch
      /\ (SaveStep /\ ~SaveFailedStep) =>
           \A k \in 0 .. (processed - 1) :
              \E b \in stored' : k \in b.start .. (b.start + b.len - 1)
    ]_vars

\* C7: a failure of storage.saveEnrichmentResults never aborts enrichment:
\* the failing step changes neither the job record nor the counters and
\* returns to the loop (or to completion), nothing is thrown to the end
\* handler's catch block, and a job marked completed has had every row
\* enriched and written to the output.
C7_SaveFailureDoesNotAbort ==
  /\ [][ SaveFailedStep =>
           /\ pc' = (IF pc = "batchSave" /\ processed < results
                     THEN "row" ELSE "complete")
           /\ job' = job
           /\ thrownBy' = thrownBy
           /\ processed' = processed
       ]_vars
  /\ [](job.status = "completed" =>
           processed = numRows /\ outputRows = numRows)

\* C7 witness: every batch write of a job of more than one batch has
\* failed and the job is completed.
C7_Witness ==
  /\ job.status = "completed"
  /\ numRows > BATCH_SIZE
  /\ Len(flushes) > 1
  /\ stored = {}

\* C8: if the store stops accepting writes once the checkpoint has reached
\* K (a multiple of the batch size, 0 < K < number of rows), the job ends
\* failed with partialSaveAvailable = true and lastCheckpoint = K, and the
\* job's results are exactly the records of rows 0..K-1.  (Nothing else
\* fails: the output file is written without error.)
C8_StoreStopsAfterCheckpoint ==
  ( /\ Stopped
    /\ thrownBy # "fs"
    /\ writeFailed
    /\ ~okAfterFail
    /\ failCheckpoint >= BATCH_SIZE
    /\ failCheckpoint % BATCH_SIZE = 0
    /\ failCheckpoint < numRows )
  => /\ job.status = "failed"
     /\ job.partialSaveAvailable
     /\ job.lastCheckpoint = failCheckpoint
     /\ StoredIndexes = 0 .. (failCheckpoint - 1)

\* The flushes of a job of n rows: n \div BATCH_SIZE full batches, then the
\* remaining n % BATCH_SIZE rows when there are any.
ExpectedFlushes(n) ==
  [ k \in 1 .. ((n + BATCH_SIZE - 1) \div BATCH_SIZE) |->
      IF k * BATCH_SIZE <= n THEN BATCH_SIZE ELSE n % BATCH_SIZE ]

\* C9: with no store failure, a job of N rows is flushed in exactly
\* ceil(N / BATCH_SIZE) batches, all of BATCH_SIZE rows except a last one
\* of N mod BATCH_SIZE rows, and each flush advances lastCheckpoint by the
\* number of rows flushed.
C9_FlushSchedule ==
  /\ []((pc = "resolved" /\ ~writeFailed) =>
          flushes = ExpectedFlushes(numRows))
  /\ [][ ( /\ pc \in {"batchCheckpoint", "finalCheckpoint"}
           /\ pc' # pc
           /\ ~writeFailed' ) =>
         job'.lastCheckpoint = job.lastCheckpoint + currentBatch.len
       ]_vars

\* C9 witness: 250 rows, no store failure: flushes of 100, 100 and 50.
C9_Witness ==
  /\ pc = "resolved"
  /\ ~writeFailed
  /\ numRows = 2 * BATCH_SIZE + BATCH_SIZE \div 2
  /\ flushes = << BATCH_SIZE, BATCH_SIZE, BATCH_SIZE \div 2 >>
  /\ job.lastCheckpoint = numRows

\* A step in which a row fails: its address is missing or invalid, or its
\* geolocation lookup fails.
RowFailureStep ==
  \/ pc = "row" /\ processed' = processed + 1
       /\ InvalidAddress(processed)
  \/ pc = "lookup" /\ pc' # pc /\ RowKind(processed - 1) = "lookupfail"

\* The rows of the input that fail.
FailingRows == { i \in 0 .. (numRows - 1) : ~RowSucceeds(i) }

\* C10: a row-level failure changes neither the job status nor the course
\* of the loop: the row is counted as failed and appended to the enriched
\* output, the loop goes on with the next row (or with the flush that is
\* due), and a completed job's failedIPs counts every failing row.
C10_RowFailureNotFatal ==
  /\ [][ RowFailureStep =>
           /\ job' = job
           /\ failed' = failed + 1
           /\ successful' = successful
           /\ \/ thrownBy' = "fs"
              \/ /\ outputRows' = outputRows + 1
                 /\ pc' = (IF currentBatch'.len >= BATCH_SIZE THEN "counters"
                           ELSE IF processed' < results THEN "row"
                           ELSE "finalSave")
       ]_vars
  /\ [](job.status = "completed" =>
           job.failedIPs = Cardinality(FailingRows))

\* C10 witness: a job with invalid addresses and failed lookups among its
\* rows is completed.
C10_Witness ==
  /\ job.status = "completed"
  /\ \E i \in FailingRows : InvalidAddress(i)
  /\ \E i \in FailingRows : RowKind(i) = "lookupfail"
  /\ job.failedIPs > 0
  /\ job.successfulIPs > 0
  /\ outputRows = numRows

\* The rows of the input whose address is missing or not valid.
InvalidRows ==
  { i \in 0 .. (numRows - 1) : RowKind(i) \in {"invalid", "missing"} }

\* C11: for a row whose address is missing or not valid, the outcome is
\* success = false with error "Invalid IP address", and neither the
\* geolocation lookup nor the reverse-DNS lookup is called for that row:
\* the iteration ends in the step that began it, the call counts are
\* unchanged, and a job run to completion has called the geolocation
\* lookup once per row with a valid address.
C11_InvalidAddressNoLookup ==
  /\ [][ ( /\ pc = "row"
           /\ processed' = processed + 1
           /\ processed \in InvalidRows ) =>
           /\ enrichmentData'.row = processed
           /\ enrichmentData'.success = FALSE
           /\ enrichmentData'.error = "Invalid IP address"
           /\ geoCalls' = geoCalls
           /\ dnsCalls' = dnsCalls
           /\ pc' \notin {"lookup", "dns"}
       ]_vars
  /\ [](pc = "resolved" => geoCalls = numRows - Cardinality(InvalidRows))

\* C11 witness: a completed job whose last row had no address, with
\* lookups made for some rows and not for others.
C11_Witness ==
  /\ pc = "resolved"
  /\ RowKind(enrichmentData.row) = "missing"
  /\ enrichmentData.error = "Invalid IP address"
  /\ geoCalls > 0
  /\ geoCalls < numRows

\* C12: a failed geolocation lookup is terminal for the row (the outcome
\* carries only ip, success = false and error, and no reverse-DNS call is
\* made); a failed or empty reverse-DNS lookup does not fail the row: the
\* row is a success, with domain absent.
C12_LookupFailureTerminal ==
  /\ [][ ( /\ pc = "lookup"
           /\ pc' # pc
           /\ RowKind(processed - 1) = "lookupfail" ) =>
           /\ enrichmentData'.row = processed - 1
           /\ enrichmentData'.success = FALSE
           /\ enrichmentData'.error # ""
           /\ enrichmentData'.fields = {"ip", "success", "error"}
           /\ dnsCalls' = dnsCalls
           /\ pc' # "dns"
           /\ failed' = failed + 1
       ]_vars
  /\ [][ ( /\ pc = "dns"
           /\ pc' # pc
           /\ RowKind(processed - 1) = "nodns" ) =>
           /\ enrichmentData'.row = processed - 1
           /\ enrichmentData'.success = TRUE
           /\ "domain" \notin enrichmentData'.fields
           /\ successful' = successful + 1
           /\ failed' = failed
       ]_vars

\* C12 witness: a row whose reverse lookup found no name has succeeded,
\* after a row whose geolocation lookup failed without a reverse lookup.
C12_Witness ==
  /\ RowKind(enrichmentData.row) = "nodns"
  /\ enrichmentData.success
  /\ "domain" \notin enrichmentData.fields
  /\ failed > 0
  /\ dnsCalls > 0
  /\ dnsCalls < geoCalls

\* The enrichment fields of an outcome: all but success, ip and error.
EnrichmentFields(d) == d.fields \ {"success", "ip", "error"}

\* C13 as stated: a failed outcome has no enrichment field, and a
\* successful one has exactly the fields of the four flags, domain being
\* present iff includeDomain.
C13_FieldsExactlyFlags ==
  enrichmentData # NoData =>
    IF enrichmentData.success
    THEN EnrichmentFields(enrichmentData) =
           (IF flags["includeGeolocation"]
            THEN {"country", "city", "region", "latitude", "longitude"}
            ELSE {})
             \cup (IF flags["includeDomain"] THEN {"domain"} ELSE {})
             \cup (IF flags["includeCompany"]
                   THEN {"company", "ispFiltered"} ELSE {})
             \cup (IF flags["includeNetwork"] THEN {"isp", "asn"} ELSE {})
    ELSE EnrichmentFields(enrichmentData) = {}

\* C13: a failed outcome has no field other than success, ip and error; a
\* successful one has exactly the fields of the four flags, domain being
\* present iff includeDomain is set and the reverse lookup found a name.
C13_FieldsMatchFlags ==
  enrichmentData # NoData =>
    IF enrichmentData.success
    THEN EnrichmentFields(enrichmentData) =
           (IF flags["includeGeolocation"]
            THEN {"country", "city", "region", "latitude", "longitude"}
            ELSE {})
             \cup (IF /\ flags["includeDomain"]
                      /\ RowKind(enrichmentData.row) # "nodns"
                   THEN {"domain"} ELSE {})
             \cup (IF flags["includeCompany"]
                   THEN {"company", "ispFiltered"} ELSE {})
             \cup (IF flags["includeNetwork"] THEN {"isp", "asn"} ELSE {})
    ELSE /\ EnrichmentFields(enrichmentData) = {}
         /\ enrichmentData.error # ""

\* C13 witness: under includeDomain and includeCompany only, a row whose
\* reverse lookup found no name was stored after a row that failed.
C13_Witness ==
  /\ flags["includeDomain"]
  /\ flags["includeCompany"]
  /\ ~flags["includeGeolocation"]
  /\ ~flags["includeNetwork"]
  /\ enrichmentData.success
  /\ RowKind(enrichmentData.row) = "nodns"
  /\ EnrichmentFields(enrichmentData) = {"company", "ispFiltered"}
  /\ failed > 0

\* The rows the common-ISP classifier matches: the successfully enriched
\* rows whose isp or org is one of a common consumer ISP.
CommonIspRows == { i \in 0 .. (numRows - 1) : RowKind(i) = "isp" }

\* The rows of a sequence of row indexes.
Range(rows) == { rows[k] : k \in DOMAIN rows }

\* C14: under every combination of the four flags, once the filtered
\* artifact is written every row matched by the common-ISP classifier is
\* absent from it and present in the full enriched artifact, and every
\* other row is present in both.
C14_FilteredArtifactExcludesIsp ==
  filteredFile.written =>
    /\ \A i \in 0 .. (numRows - 1) : i < outputRows
    /\ Range(filteredFile.rows) = (0 .. (numRows - 1)) \ CommonIspRows

\* C15: whenever the job's status is completed, every row has been
\* enriched, the final partial batch has been flushed, the full enriched
\* artifact and the filtered artifact have been written, completedAt is
\* set and partialSaveAvailable is true.
C15_CompletedMeansAllWritten ==
  job.status = "completed" =>
    /\ processed = numRows
    /\ \A k \in (numRows - (numRows % BATCH_SIZE)) .. (numRows - 1) :
         k \in StoredIndexes
    /\ outputHeader
    /\ outputRows = numRows
    /\ filteredFile.written
    /\ job.completedAt
    /\ job.partialSaveAvailable

\* C16: when reading the source stream fails, the job is marked failed
\* with the error recorded, and the persisted records are left unchanged.
\* (Stated for a store that has accepted every write: the step that ends
\* the reading leaves the job failed.)
C16_ReadFailureMarksFailed ==
  [][ ( /\ pc = "stream"
        /\ pc' \in {"crashed", "rejected", "hung"}
        /\ ~writeFailed' ) =>
        /\ job'.status = "failed"
        /\ job'.error
        /\ stored' = stored
    ]_vars

\* C17: once cancellation has been requested for a processing job, the
\* pipeline stops after the current row: no later row is begun and no
\* lookup is issued for it.
C17_CancellationHonoured ==
  [][ ( /\ isCanceling
        /\ job.status = "processing"
        /\ pc = "row"
        /\ processed > 0 ) =>
        /\ processed' = processed
        /\ geoCalls' = geoCalls
    ]_vars

\* The persisted row indexes that are >= since, in ascending order, and
\* of them the first `limit`.
FirstFrom(since, limit) ==
  LET from == SelectSeq(SortedIndexes(stored), LAMBDA k : k >= since)
  IN  SubSeq(from, 1, Min(limit, Len(from)))

\* C18: a recent-results poll with since = s and limit = l returns the
\* first l persisted records with rowIndex >= s in ascending rowIndex
\* order, and nextIndex = s + the number of records returned, whatever
\* batch writes failed earlier.  (Polls answered with sample data are left
\* aside.)
C18_RecentResultsFromSince ==
  (response.route = "recent" /\ ~response.fabricated) =>
    /\ response.rows = FirstFrom(response.offset, response.limit)
    /\ response.nextIndex = response.offset + Len(response.rows)

C20_PartialDownload ==
  ( /\ response.route = "download"
    /\ job.status = "failed"
    /\ job.lastCheckpoint > 0 ) =>
    /\ response.status = 200
    /\ Range(response.rows) = 0 .. (job.lastCheckpoint - 1)

\* C21: the enriched output has exactly one data row per input row, in the
\* order of the input, whatever rows succeed or fail: every append adds
\* one row, that of the next input row, and a completed job's output has
\* as many data rows as the input, which is the job's totalIPs.
C21_OneOutputRowPerInputRow ==
  /\ [][ outputRows' # outputRows =>
           /\ outputRows' = outputRows + 1
           /\ enrichmentData'.row = outputRows
           /\ processed' = outputRows'
       ]_vars
  /\ [](job.status = "completed" =>
           outputRows = numRows /\ outputRows = job.totalIPs)

\* C21 witness: a completed job of several batches with rows of both
\* outcomes.
C21_Witness ==
  /\ job.status = "completed"
  /\ job.totalIPs > BATCH_SIZE
  /\ outputRows = job.totalIPs
  /\ job.failedIPs > 0
  /\ job.successfulIPs > 0

\* The row indexes of a saved batch.
BatchIndexes(b) == b.start .. (b.start + b.len - 1)

\* C22: every persisted record's rowIndex is the position of its row in
\* the input, no two records of the job share a rowIndex, and records are
\* persisted in increasing rowIndex order.
C22_RowIndexIsPosition ==
  /\ [](\A b \in stored : b.start = b.first)
  /\ [](\A b, c \in stored :
           b # c => BatchIndexes(b) \cap BatchIndexes(c) = {})
  /\ [][ stored' # stored =>
           \A b \in stored' \ stored :
              \A k \in StoredIndexes : k < b.start
       ]_vars

\* C22 witness: three batches are persisted, the last of them partial.
C22_Witness ==
  /\ Cardinality(stored) = 3
  /\ \E b \in stored : b.start = 2 * BATCH_SIZE /\ b.len < BATCH_SIZE
  /\ ResultsCount = numRows

\* C23: a completed job has processedIPs = totalIPs = the number of rows of
\* the input; totalIPs is written by the pipeline once, at the end of the
\* stream, and never changes afterwards.
C23_TotalWrittenOnce ==
  /\ [][ job'.totalIPs # job.totalIPs =>
           /\ pc = "stream"
           /\ pc' = "header"
           /\ job.totalIPs = 0
           /\ job'.totalIPs = numRows
       ]_vars
  /\ [](pc \notin {"start", "outerCatch", "stream", "crashed"} =>
           job.totalIPs \in {0, numRows})
  /\ [](job.status = "completed" =>
           job.processedIPs = numRows /\ job.totalIPs = numRows)

\* C23 witness: a job of several batches is completed although store
\* writes have failed on the way.
C23_Witness ==
  /\ job.status = "completed"
  /\ job.totalIPs > BATCH_SIZE
  /\ job.processedIPs = job.totalIPs
  /\ writeFailed

\* C24: once the job's status is completed or failed, no write changes
\* the job record or the job's result records.
C24_TerminalJobImmutable ==
  [][ job.status \in {"completed", "failed"} =>
        job' = job /\ stored' = stored ]_vars

\* C26: a job never remains in status processing once its pipeline has
\* stopped working on it.
C26_StoppedJobIsTerminal ==
  ~(Stopped /\ job.status = "processing")

\* C27: the rows of a job are processed one after the other: a lookup is
\* issued for a row only when the outcome of every earlier row has been
\* recorded and appended and no flush is due, one call at a time, and the
\* reverse lookup of a row only after its geolocation lookup has returned.
C27_RowsSequential ==
  /\ [][ geoCalls' # geoCalls =>
           /\ geoCalls' = geoCalls + 1
           /\ dnsCalls' = dnsCalls
           /\ pc = "row"
           /\ pc' = "lookup"
           /\ successful + failed = processed
           /\ outputRows = processed
           /\ currentBatchEnrichment = currentBatch.len
           /\ currentBatch.len < BATCH_SIZE
       ]_vars
  /\ [][ dnsCalls' # dnsCalls =>
           /\ dnsCalls' = dnsCalls + 1
           /\ geoCalls' = geoCalls
           /\ pc = "lookup"
           /\ pc' = "dns"
           /\ successful + failed = processed - 1
       ]_vars
  /\ [](geoCalls <= successful + failed + 1)

\* C27 witness: the lookup of the first row of the second batch is in
\* flight, the first batch having been flushed.
C27_Witness ==
  /\ pc = "lookup"
  /\ processed = BATCH_SIZE + 1
  /\ Len(flushes) = 1
  /\ currentBatch.len = 1
  /\ geoCalls = successful + failed + 1

\* C28: the common-ISP classification of a successful row does not depend
\* on the flags: every successful row of a common ISP is counted in
\* filtered, and a completed job's filteredIPs is the number of those rows,
\* also when includeCompany is off.
C28_FilteredCountsIspRows ==
  /\ [][ successful' # successful =>
           filtered' = filtered +
             (IF RowKind(enrichmentData'.row) = "isp" THEN 1 ELSE 0)
       ]_vars
  /\ [](job.status = "completed" =>
           job.filteredIPs = Cardinality(CommonIspRows))

\* C28 witness: a job without includeCompany is completed with filtered
\* rows.
C28_Witness ==
  /\ job.status = "completed"
  /\ ~flags["includeCompany"]
  /\ job.filteredIPs > 0
  /\ job.successfulIPs > job.filteredIPs

\* The decimal numerals of 0 .. 255, with leading zeros up to three digits.
Octets ==
  { << DecimalDigits[a + 1] >> : a \in 0 .. 9 }
    \cup { << DecimalDigits[a + 1], DecimalDigits[b + 1] >> :
             a \in 0 .. 9, b \in 0 .. 9 }
    \cup { << DecimalDigits[t[1] + 1], DecimalDigits[t[2] + 1],
              DecimalDigits[t[3] + 1] >> :
             t \in { u \in (0 .. 2) \X (0 .. 9) \X (0 .. 9) :
                       100 * u[1] + 10 * u[2] + u[3] <= 255 } }

C25_JobsIndependent ==
  scriptPos # << >> =>
    \A id \in StoreJobIds :
      LET alone == Alone(id, scriptPos[id].made)
      IN  /\ memJobs[id] = alone.jobs[id]
          /\ RecordsOf(memResults, id) = RecordsOf(alone.results, id)
          /\ Cardinality({ k \in DOMAIN memResults :
                             memResults[k].jobId = id })
               = Cardinality(RecordsOf(alone.results, id))

\* C25 witness: both jobs are completed, and the records of the smaller
\* job were saved between the two batches of the larger one.
C25_Witness ==
  /\ scriptPos # << >>
  /\ \A id \in StoreJobIds : memJobs[id].status = "completed"
  /\ \E a, b, c \in DOMAIN memResults :
       /\ memResults[a].jobId = 1
       /\ memResults[b].jobId = 10
       /\ memResults[c].jobId = 1
       /\ memResults[a].id < memResults[b].id
       /\ memResults[b].id < memResults[c].id

\* C31: every data row appended to the enriched output has as many fields
\* as the header row, so that the values read under enrichment_success and
\* enrichment_error are the row's own, for failed rows as for successful
\* ones.
C31_RowFieldsMatchHeader ==
  \A i \in 0 .. (outputRows - 1) :
    /\ Len(EnrichedRow(i)) = Len(OutputHeaders)
    /\ ParsedField(i, "enrichment_success")
         = (IF RowSucceeds(i) THEN "true" ELSE "false")
    /\ ParsedField(i, "enrichment_error")
         = (IF RowSucceeds(i) THEN "" ELSE RowError(i))

\* C32: a job whose partialSaveAvailable flag is true has at least one
\* persisted result record, unless its input had no rows.
C32_PartialSaveHasRecords ==
  (job.partialSaveAvailable /\ numRows > 0) => ResultsCount > 0

\* C33: the client that polls recent results with the nextIndex of the
\* response before receives the persisted records at most once and in
\* ascending order of rowIndex, and when a poll answered after the pipeline
\* has stopped comes back empty it has received every persisted record.
C33_PolledOnceInOrder ==
  /\ \A i, j \in DOMAIN recentResults :
       i < j => recentResults[i] < recentResults[j]
  /\ drained =>
       { recentResults[i] : i \in DOMAIN recentResults } = StoredIndexes

\* C34 as stated: while the job is processing its persisted processedIPs
\* is a multiple of the batch size and lags the rows processed by at most
\* BATCH_SIZE - 1.
C34_CountersLagBelowBatch ==
  job.status = "processing" =>
    /\ job.processedIPs % BATCH_SIZE = 0
    /\ processed - job.processedIPs <= BATCH_SIZE - 1

\* C34, amended: while the job is processing its persisted processedIPs
\* is a multiple of the batch size, never more than the rows processed,
\* and lags them by at most a whole batch.
C34_CountersLagAtMostBatch ==
  job.status = "processing" =>
    /\ job.processedIPs % BATCH_SIZE = 0
    /\ job.processedIPs <= processed
    /\ processed - job.processedIPs <= BATCH_SIZE

\* C34 witness: the counters of the first batch are persisted and the
\* second batch has just filled.
C34_Witness ==
  /\ job.status = "processing"
  /\ job.processedIPs = BATCH_SIZE
  /\ processed = BATCH_SIZE + BATCH_SIZE
  /\ pc = "counters"

\* C35: in every persisted state of the job record, completedAt is set
\* only if the status is completed, error is set whenever the status is
\* failed, and filteredIPs is at most successfulIPs.
C35_JobRecordConsistent ==
  /\ job.completedAt => job.status = "completed"
  /\ job.status = "failed" => job.error
  /\ job.filteredIPs <= job.successfulIPs

\* C35 witness: a job has failed after rows of a common ISP were counted;
\* its record has the error and no completedAt.
C35_Witness ==
  /\ job.status = "failed"
  /\ job.error
  /\ ~job.completedAt
  /\ job.filteredIPs > 0
  /\ job.filteredIPs < job.successfulIPs

C37_DeleteRemovesOwnRecords ==
  [][ \A id \in StoreJobIds :
        (id \in DOMAIN memJobs /\ id \notin DOMAIN memJobs') =>
          /\ memJobs' = Restrict(memJobs, DOMAIN memJobs \ {id})
          /\ memResults' =
               Restrict(memResults,
                        { k \in DOMAIN memResults :
                            memResults[k].jobId # id })
          /\ dbJobs' = Restrict(dbJobs, DOMAIN dbJobs \ {id})
          /\ dbResults' = SelectSeq(dbResults, LAMBDA r : r.jobId # id)
    ]_vars

\* C37 witness: job 1 has been deleted with the records it had, and job 10
\* and its records are there, in both stores.
C37_Witness ==
  /\ dbJobs # << >>
  /\ DOMAIN memJobs = {10}
  /\ DOMAIN dbJobs = {10}
  /\ dbSerial - 1 > Len(dbResults)
  /\ MemGetResultsCount(TheStore, 1) = 0
  /\ MemGetResultsCount(TheStore, 10) > 0
  /\ DbGetResultsCount(TheDatabase, 1) = 0
  /\ DbGetResultsCount(TheDatabase, 10) > 0

\* C38: after the same saveEnrichmentResults calls, MemStorage and
\* DBStorage return the same records from getEnrichmentResults and the
\* same number from getResultsCount.
C38_StoragesAgree ==
  dbJobs # << >> =>
    \A jobId \in StoreJobIds :
      /\ MemGetResultsCount(TheStore, jobId)
           = DbGetResultsCount(TheDatabase, jobId)
      /\ \A offset \in 0 .. 1, limit \in 1 .. MaxSavedRows :
           [ k \in DOMAIN MemGetEnrichmentResults(TheStore, jobId, offset,
                                                  limit) |->
               Returned(MemGetEnrichmentResults(TheStore, jobId, offset,
                                                limit)[k]) ]
             = [ k \in DOMAIN DbGetEnrichmentResults(TheDatabase, jobId,
                                                     offset, limit) |->
                   Returned(DbGetEnrichmentResults(TheDatabase, jobId,
                                                   offset, limit)[k]) ]


\* The counters update made when a batch filled has thrown into the catch
\* block of the end handler, and the catch block has run.
CountersUpdateFailed ==
  /\ thrownBy = "store"
  /\ currentBatch.len = BATCH_SIZE
  /\ pc # "catch"

\* C39: when the counters update made as a batch fills fails, the job is
\* marked failed with the counters of the rows processed so far, its
\* lastCheckpoint is the start index of the batch that had just filled when
\* that index is greater than 0 and is left as it was (0) otherwise, and no
\* further row is enriched.
C39_CountersFailureMarksFailed ==
  /\ [](CountersUpdateFailed =>
          /\ job.status = "failed"
          /\ job.processedIPs = processed
          /\ job.successfulIPs = successful
          /\ job.failedIPs = failed
          /\ job.filteredIPs = filtered
          /\ job.lastCheckpoint = batchStartIndex)
  /\ [][ (pc = "catch" /\ thrownBy = "store" /\ currentBatch.len = BATCH_SIZE)
           => /\ processed' = processed
              /\ geoCalls' = geoCalls
              /\ dnsCalls' = dnsCalls
              /\ outputRows' = outputRows
              /\ (batchStartIndex = 0 => job'.lastCheckpoint = job.lastCheckpoint)
       ]_vars

====
